---- MODULE Spec2Model ----
(***************************************************************************)
(* Model of the synchronisation core of coding-agent-sync (opencode-sync): *)
(* the local configuration trees of the assistant providers, the shared    *)
(* ~/.mcp.json, ~/.claude.json, the session-context store, the persisted   *)
(* SyncState and credentials, the remote Gist container, and the push and  *)
(* pull commands of the CLI and of the editor extension.                   *)
(***************************************************************************)
EXTENDS Integers, Sequences, FiniteSets, TLC

(***************************************************************************)
(* Bounds of the model.                                                    *)
(***************************************************************************)
MaxOps == 2
MaxEdits == 1
MaxRemote == 1
MaxFaults == 1

(***************************************************************************)
(* Values.                                                                 *)
(***************************************************************************)
NoFile == "<absent>"
Missing == "<undefined>"
NoGist == "<no-gist>"

\* src/providers/registry.ts registers opencode, claude-code, codex and
\* gemini; the gemini provider's source is not part of the tree and it is
\* left out of the model.
Providers == {"opencode", "claude-code", "codex"}

\* Iteration order of the registry's Map (insertion order).
RegistryOrder == <<"opencode", "claude-code", "codex">>

\* Relative paths that occur in a config root.
Paths == {".claude.json", "agent/foo.md", "CLAUDE.md", "config.toml"}

\* String.prototype.localeCompare order of Paths.
PathOrder == <<".claude.json", "agent/foo.md", "CLAUDE.md", "config.toml">>

\* allHashes.sort() order of the "id:hash" strings (plain code-unit order).
IdOrder == <<"claude-code", "codex", "opencode">>

McpVals == {"M1", "M2"}

\* The JSON text JSON.stringify emits for { mcpServers: v }.
StringifyMcpOnly(v) == "{mcpServers:" \o v \o "}"

GistIds == {"g1", "g2"}
FileNames == {"coding-agent-sync.json", "opencodesync.json"}

(***************************************************************************)
(* utils/hash.ts: SHA-256 is modelled as a collision-free tagging of its   *)
(* input; "" (empty combined hash) and null are distinct from any digest.  *)
(***************************************************************************)
hashContent(x) == <<"sha256", x>>
EmptyHash == <<>>
NullHash == <<"null">>

(***************************************************************************)
(* JSON.parse of a synced .claude.json entry.                              *)
(***************************************************************************)
JsonParse(c) ==
  IF \E v \in McpVals : c = StringifyMcpOnly(v)
    THEN [ok |-> TRUE, mcpServers |-> CHOOSE v \in McpVals : c = StringifyMcpOnly(v)]
    ELSE IF c = "{}" THEN [ok |-> TRUE, mcpServers |-> Missing]
    ELSE [ok |-> FALSE, mcpServers |-> Missing]

VARIABLES
  configDirExists,  \* provider -> the config root directory exists
  fs,               \* provider -> relative path -> content or NoFile
  claudeJson,       \* ~/.claude.json
  mcpJson,          \* ~/.mcp.json
  contexts,         \* contexts.json: the list of session contexts
  syncState,        \* sync-state.json
  auth,             \* auth.json (credentials and linked gist id)
  gists,            \* the remote store: gist id -> files
  pc,               \* "idle", or the prompt a pull is waiting at
  pending,          \* the pull that waits at the prompt
  now,              \* number of commands started (clock)
  edits,            \* number of local edits made
  remotePushes,     \* number of pushes by another device
  faults,           \* number of injected failures
  dirty,            \* which side changed since this device's last sync
  last              \* observation of the last command (history)

vars == <<configDirExists, fs, claudeJson, mcpJson, contexts, syncState, auth,
          gists, pc, pending, now, edits, remotePushes, faults, dirty,
          last>>

localVars == <<configDirExists, fs, claudeJson, mcpJson, contexts>>


(***************************************************************************)
(* Glob patterns and blocklists, restricted to Paths: the relative paths   *)
(* of a config root that match one of the provider's patterns              *)
(* (getAllPatterns) and none of its blocklist patterns (isBlocked).        *)
(* glob runs with dot:false, so the dot file .claude.json never matches.   *)
(***************************************************************************)
SyncablePaths(p) ==
  CASE p = "opencode" -> {"agent/foo.md"}
    [] p = "claude-code" -> {"CLAUDE.md"}
    [] p = "codex" -> {"config.toml"}

\* The files of a directory as a mapping path -> content.
FilesIn(dir, paths) ==
  [path \in {q \in paths : dir[q] # NoFile} |-> dir[path]]

\* files.sort(localeCompare) followed by
\* hashContent(files.map(f => `${f.relativePath}:${f.hash}`).join("\n")),
\* or "" for an empty list.
SortedEntries(files) ==
  LET present(path) == path \in DOMAIN files
      ordered == SelectSeq(PathOrder, present)
  IN [i \in DOMAIN ordered |-> <<ordered[i], hashContent(files[ordered[i]])>>]

combinedHashOf(files) ==
  IF DOMAIN files = {} THEN EmptyHash ELSE hashContent(SortedEntries(files))

EmptyCollection == [files |-> <<>>, combinedHash |-> EmptyHash]

\* OpenCodeProvider.collectFiles and CodexProvider.collectFiles.
DirCollectFiles(p) ==
  IF ~configDirExists[p] THEN EmptyCollection
  ELSE LET files == FilesIn(fs[p], SyncablePaths(p))
       IN [files |-> files, combinedHash |-> combinedHashOf(files)]

\* ClaudeCodeProvider.collectFiles: the files of ~/.claude plus, when
\* ~/.claude.json parses and has mcpServers, an entry ".claude.json" that
\* holds only that key.
ClaudeCollectFiles ==
  LET dirFiles == IF configDirExists["claude-code"]
                    THEN FilesIn(fs["claude-code"], SyncablePaths("claude-code"))
                    ELSE <<>>
      withJson == claudeJson.state = "ok" /\ claudeJson.mcpServers # Missing
      files == IF withJson
                 THEN [path \in DOMAIN dirFiles \cup {".claude.json"} |->
                         IF path = ".claude.json"
                           THEN StringifyMcpOnly(claudeJson.mcpServers)
                           ELSE dirFiles[path]]
                 ELSE dirFiles
  IN [files |-> files, combinedHash |-> combinedHashOf(files)]

collectFiles(p) ==
  IF p = "claude-code" THEN ClaudeCollectFiles ELSE DirCollectFiles(p)

\* isInstalled of the three providers.
isInstalled(p) ==
  IF p = "claude-code"
    THEN configDirExists[p] \/ claudeJson.state # "absent"
    ELSE configDirExists[p]

\* determineProviders of the push, pull and status commands: the flags select
\* providers; no flag, or --all, selects every provider.
determineProviders(options) ==
  IF options.ids = {} \/ options.all THEN Providers ELSE options.ids

\* A collection that one failing provider aborts.
collectFromProvidersAborting(providerIds, throwing) ==
  LET selected == {p \in Providers : p \in providerIds /\ isInstalled(p)}
      results == IF selected \cap throwing # {} THEN <<>>
                 ELSE [p \in selected |-> collectFiles(p)]
      hashed(p) == p \in DOMAIN results /\ results[p].combinedHash # EmptyHash
      ids == SelectSeq(IdOrder, hashed)
      allHashes == [i \in DOMAIN ids |-> <<ids[i], results[ids[i]].combinedHash>>]
  IN [results |-> results,
      combinedHash |-> IF allHashes = <<>> THEN EmptyHash ELSE hashContent(allHashes)]

\* collectFromProviders: the selected installed providers are collected one
\* by one; a provider whose collectFiles throws is logged and left out.
\* The combined hash is over the sorted "id:hash" strings of the providers
\* with a non-empty hash.
collectFromProviders(providerIds, throwing) ==
  LET selected == {p \in Providers : p \in providerIds /\ isInstalled(p)}
      results == [p \in selected \ throwing |-> collectFiles(p)]
      hashed(p) == p \in DOMAIN results /\ results[p].combinedHash # EmptyHash
      ids == SelectSeq(IdOrder, hashed)
      allHashes == [i \in DOMAIN ids |-> <<ids[i], results[ids[i]].combinedHash>>]
  IN [results |-> results,
      combinedHash |-> IF allHashes = <<>> THEN EmptyHash ELSE hashContent(allHashes)]

(***************************************************************************)
(* storage/contexts.ts                                                     *)
(***************************************************************************)
\* JSON.stringify(storage.contexts): a stored context carries its size and,
\* when set, its sessionId.
StoredContextJson(c) == [id |-> c.id, sessionId |-> c.sessionId, size |-> "bytes"]

getContextsHash ==
  IF contexts = <<>> THEN NullHash
  ELSE hashContent([i \in DOMAIN contexts |-> StoredContextJson(contexts[i])])

\* The items that push puts in the payload: id, name, summary, createdAt and
\* project of every context (sessionId and size are dropped).
ContextItems == [i \in DOMAIN contexts |-> [id |-> contexts[i].id]]

\* The list pull saves: the items of the payload with their size added.
PulledContexts(items) ==
  [i \in DOMAIN items |-> [id |-> items[i].id, sessionId |-> Missing]]

(***************************************************************************)
(* providers/mcp.ts: ~/.mcp.json                                           *)
(***************************************************************************)
\* getGlobalMCPServers: the entries of mcpServers as a list of server
\* configurations; [] when the file is absent or does not parse.
getGlobalMCPServers ==
  IF mcpJson.state # "ok" THEN <<>>
  ELSE [i \in DOMAIN mcpJson.mcpServers |->
          LET e == mcpJson.mcpServers[i]
          IN [name |-> e.name,
              type |-> IF e.type = Missing THEN "stdio" ELSE e.type,
              command |-> e.command,
              url |-> e.url,
              enabled |-> ~e.disabled]]

(***************************************************************************)
(* Payloads (providers/types.ts) and the encrypted envelope.               *)
(***************************************************************************)
NoConfig == [present |-> FALSE, files |-> <<>>, hash |-> EmptyHash]

PayloadV2(providers, mcpServers, items, ctxHash) ==
  [version |-> 2, config |-> NoConfig, providers |-> providers,
   hasMcpServers |-> TRUE, mcpServers |-> mcpServers,
   contexts |-> [items |-> items, hash |-> ctxHash]]

PayloadV1(files, hash, items, ctxHash) ==
  [version |-> 1, config |-> [present |-> TRUE, files |-> files, hash |-> hash],
   providers |-> <<>>, hasMcpServers |-> FALSE, mcpServers |-> <<>>,
   contexts |-> [items |-> items, hash |-> ctxHash]]

isPayloadV2(payload) == payload.version = 2
isPayloadV1(payload) == payload.version = 1

NoEnvelope == [present |-> FALSE]
\* encryptObject: the envelope decrypts only under the passphrase it was
\* made with.
encryptObject(payload, passphrase) ==
  [present |-> TRUE, key |-> passphrase, payload |-> payload]

NoGistFiles == [f \in FileNames |-> NoEnvelope]

(***************************************************************************)
(* storage/state.ts                                                        *)
(***************************************************************************)
DEFAULT_STATE ==
  [lastSync |-> 0, gistId |-> NoGist, configHash |-> NullHash,
   contextsHash |-> NullHash]

\* recordSync -> updateSyncState: the four fields are replaced.
recordSync(gistId, configHash, contextsHash, time) ==
  [lastSync |-> time, gistId |-> gistId, configHash |-> configHash,
   contextsHash |-> contextsHash]

\* A comparison that looks at the config hash only.
hasPendingChangesConfigOnly(currentConfigHash, currentContextsHash) ==
  syncState.configHash # currentConfigHash

hasPendingChanges(currentConfigHash, currentContextsHash) ==
  \/ syncState.configHash # currentConfigHash
  \/ syncState.contextsHash # currentContextsHash


(***************************************************************************)
(* The local state a command reads and writes, as one record.              *)
(***************************************************************************)
Local ==
  [configDirExists |-> configDirExists, fs |-> fs, claudeJson |-> claudeJson,
   mcpJson |-> mcpJson, contexts |-> contexts]

NoDir == [path \in Paths |-> NoFile]

(***************************************************************************)
(* applyFiles of the providers.                                            *)
(***************************************************************************)
\* An apply that replaces the whole tree of the config root by the incoming
\* files.
DirApplyFilesReplacing(p, loc, files) ==
  [loc EXCEPT
     !.configDirExists[p] = TRUE,
     !.fs[p] = [path \in Paths |->
                  IF path \in DOMAIN files THEN files[path] ELSE NoFile]]

\* OpenCodeProvider.applyFiles and CodexProvider.applyFiles: the config root
\* is created when missing and every incoming file is written at
\* configRoot/relativePath.
DirApplyFiles(p, loc, files) ==
  [loc EXCEPT
     !.configDirExists[p] = TRUE,
     !.fs[p] = [path \in Paths |->
                  IF path \in DOMAIN files THEN files[path] ELSE loc.fs[p][path]]]

\* A write of the synced document in place of ~/.claude.json.
ClaudeJsonReplace(existing, content, writeFails) ==
  LET synced == JsonParse(content)
  IN IF ~synced.ok \/ writeFails THEN existing
     ELSE [state |-> "ok", mcpServers |-> synced.mcpServers, theme |-> Missing]

\* The merge of a synced .claude.json entry into ~/.claude.json: the existing
\* document (or {} when absent or unparsable) gets the synced mcpServers, if
\* any, and is written back; nothing is written when the synced text does
\* not parse or the write fails (both are caught and logged).
ClaudeJsonMerge(existing, content, writeFails) ==
  LET base == IF existing.state = "ok" THEN existing
              ELSE [state |-> "ok", mcpServers |-> Missing, theme |-> Missing]
      synced == JsonParse(content)
  IN IF ~synced.ok \/ writeFails THEN existing
     ELSE IF synced.mcpServers # Missing
       THEN [base EXCEPT !.mcpServers = synced.mcpServers]
       ELSE base

\* ClaudeCodeProvider.applyFiles: the entry ".claude.json" is merged into
\* ~/.claude.json; every other file is written at ~/.claude/relativePath.
ClaudeApplyFiles(loc, files, writeFails) ==
  LET p == "claude-code"
      regular == DOMAIN files \ {".claude.json"}
  IN [loc EXCEPT
        !.configDirExists[p] = TRUE,
        !.fs[p] = [path \in Paths |->
                     IF path \in regular THEN files[path] ELSE loc.fs[p][path]],
        !.claudeJson = IF ".claude.json" \in DOMAIN files
                         THEN ClaudeJsonMerge(loc.claudeJson, files[".claude.json"],
                                              writeFails)
                         ELSE loc.claudeJson]

applyFiles(p, loc, files, writeFails) ==
  IF p = "claude-code" THEN ClaudeApplyFiles(loc, files, writeFails)
  ELSE DirApplyFiles(p, loc, files)

\* True when applying the entry .claude.json of files fails (and is caught).
ClaudeJsonApplyFails(files, writeFails) ==
  /\ ".claude.json" \in DOMAIN files
  /\ (writeFails \/ ~JsonParse(files[".claude.json"]).ok)

(***************************************************************************)
(* Initial state: OpenCode and Claude Code are installed, nothing has been *)
(* synced; the device is either not linked to a gist or linked (by init)   *)
(* to the existing gist g1.                                                *)
(***************************************************************************)
Idle == [cmd |-> "none"]

\* Neither side has changed since the last successful push or pull.
Clean == [local |-> FALSE, remote |-> FALSE]

NoObservation ==
  [cmd |-> "none", force |-> FALSE, outcome |-> "none", failed |-> {},
   aborted |-> FALSE, stateBefore |-> DEFAULT_STATE, localBefore |-> <<>>,
   remoteWrites |-> 0, wrote |-> {}, confirmed |-> FALSE, prompted |-> FALSE,
   options |-> {}, repeat |-> FALSE, view |-> <<>>,
   reported |-> FALSE, conflicts |-> {}, payload |-> <<>>, providerIds |-> {},
   gistId |-> NoGist, bothChanged |-> FALSE]

Init ==
  /\ configDirExists = [p \in Providers |-> p # "codex"]
  /\ fs = [p \in Providers |->
             IF p = "opencode" THEN [NoDir EXCEPT !["agent/foo.md"] = "A"]
             ELSE NoDir]
  /\ claudeJson = [state |-> "ok", mcpServers |-> "M1", theme |-> "dark"]
  /\ mcpJson = [state |-> "ok", hasMcpServers |-> TRUE, mcpServers |-> <<>>,
                extra |-> "inputs"]
  /\ contexts = <<>>
  /\ syncState = DEFAULT_STATE
  /\ \E linked \in BOOLEAN :
       /\ auth = [gistId |-> IF linked THEN "g1" ELSE NoGist, passphrase |-> "K1"]
       /\ gists = [g \in GistIds |->
                     [exists |-> linked /\ g = "g1", files |-> NoGistFiles]]
  /\ pc = "idle"
  /\ pending = Idle
  /\ now = 0
  /\ edits = 0
  /\ remotePushes = 0
  /\ faults = 0
  /\ dirty = Clean
  /\ last = NoObservation

(***************************************************************************)
(* Local edits by the user (outside any sync command).                     *)
(***************************************************************************)
WriteLocalFile(p, path, content) ==
  /\ pc = "idle" /\ edits < MaxEdits
  /\ configDirExists[p]
  /\ fs[p][path] # content
  /\ fs' = [fs EXCEPT ![p][path] = content]
  /\ edits' = edits + 1
  /\ UNCHANGED <<configDirExists, claudeJson, mcpJson, contexts, syncState, auth,
                 gists, pc, pending, now, remotePushes, faults, last>>
  /\ dirty' = [dirty EXCEPT !.local = TRUE]

EditClaudeJson(doc) ==
  /\ pc = "idle" /\ edits < MaxEdits
  /\ claudeJson # doc
  /\ claudeJson' = doc
  /\ edits' = edits + 1
  /\ UNCHANGED <<configDirExists, fs, mcpJson, contexts, syncState, auth,
                 gists, pc, pending, now, remotePushes, faults, last>>
  /\ dirty' = [dirty EXCEPT !.local = TRUE]

ClaudeJsonDocs ==
  {[state |-> "ok", mcpServers |-> "M2", theme |-> "dark"],
   [state |-> "corrupt", mcpServers |-> Missing, theme |-> Missing]}

(***************************************************************************)
(* storage/contexts.ts: addContext puts the new context first and keeps at *)
(* most MAX_CONTEXTS entries.                                              *)
(***************************************************************************)
MAX_CONTEXTS == 20

addContext(id, sessionId) ==
  /\ pc = "idle" /\ edits < MaxEdits
  /\ LET added == <<[id |-> id, sessionId |-> sessionId]>> \o contexts
     IN contexts' = IF Len(added) > MAX_CONTEXTS
                      THEN SubSeq(added, 1, MAX_CONTEXTS) ELSE added
  /\ edits' = edits + 1
  /\ UNCHANGED <<configDirExists, fs, claudeJson, mcpJson, syncState, auth,
                 gists, pc, pending, now, remotePushes, faults, last>>
  /\ dirty' = [dirty EXCEPT !.local = TRUE]


(***************************************************************************)
(* core/gist.ts                                                            *)
(***************************************************************************)
GistOrder == <<"g1", "g2">>

\* The id GitHub gives a newly created gist.
FreshGistId ==
  LET free(g) == ~gists[g].exists
  IN Head(SelectSeq(GistOrder, free))

\* createGist / updateGist: the named file of the gist is set; the other
\* files of the gist stay as they are.
PutGistFile(id, filename, envelope) ==
  [gists EXCEPT ![id] = [exists |-> TRUE,
                         files |-> [@.files EXCEPT ![filename] = envelope]]]

\* An updateGistId that does not store the id.
updateGistIdForgets(gistId) == auth

\* updateGistId(gistId): saveAuth({ ...auth, gistId })
updateGistId(gistId) == [auth EXCEPT !.gistId = gistId]

\* The file name every push writes.
PushFileName == "opencodesync.json"

(***************************************************************************)
(* What change detection looks at: the collected files of every provider   *)
(* and the context list.                                                   *)
(***************************************************************************)
CollectedView ==
  [files |-> collectFromProviders(Providers, {}).results, contexts |-> contexts]

\* The command repeats the previous command, a push that went through, with
\* the same options and with no local change in between.
Repeats(cmd, ids) ==
  /\ last.cmd = cmd
  /\ last.outcome \in {"ok", "noop"}
  /\ last.options = ids
  /\ last.view = CollectedView

StartObservation(cmd, force, ids) ==
  [NoObservation EXCEPT !.cmd = cmd, !.force = force, !.options = ids,
                        !.stateBefore = syncState, !.localBefore = Local,
                        !.repeat = Repeats(cmd, ids), !.view = CollectedView,
                        !.bothChanged = dirty.local /\ dirty.remote]

\* An injected failure uses up the fault budget.
Inject(fail) ==
  /\ fail # "none" => faults < MaxFaults
  /\ faults' = IF fail = "none" THEN faults ELSE faults + 1

\* A command that went through is a sync: both sides agree from then on.
Settle == dirty' = IF last'.outcome = "ok" THEN Clean ELSE dirty

Aborted(obs, failure) ==
  [obs EXCEPT !.outcome = "error", !.aborted = TRUE,
              !.failed = @ \cup {failure}]

(***************************************************************************)
(* CLI push, multi-provider version (V2 payload).                          *)
(***************************************************************************)
pushCommand(options, throwing, fail) ==
  /\ pc = "idle" /\ now < MaxOps
  /\ Inject(fail)
  /\ now' = now + 1
  /\ LET providerIds == determineProviders(options)
         thrown == {p \in throwing : p \in providerIds /\ isInstalled(p)}
         collection == collectFromProviders(providerIds, throwing)
         contextsHash == getContextsHash
         payload == PayloadV2(
                      [p \in DOMAIN collection.results |->
                         [files |-> collection.results[p].files,
                          hash |-> collection.results[p].combinedHash]],
                      getGlobalMCPServers, ContextItems, contextsHash)
         encrypted == encryptObject(payload, auth.passphrase)
         obs == [StartObservation("push", options.force, options.ids)
                   EXCEPT !.failed = IF thrown = {} THEN {} ELSE {"collect"}]
         create == auth.gistId = NoGist
         gistId == IF create THEN FreshGistId ELSE auth.gistId
         called == [obs EXCEPT !.remoteWrites = 1]
     IN IF DOMAIN collection.results = {}
          THEN /\ last' = Aborted(obs, "nothing-collected")
               /\ UNCHANGED <<syncState, auth, gists>>
        ELSE IF fail = "encrypt"
          THEN /\ last' = Aborted(obs, "encrypt")
               /\ UNCHANGED <<syncState, auth, gists>>
        ELSE IF fail = "upload" \/ (~create /\ ~gists[gistId].exists)
          THEN /\ last' = Aborted(called, "upload")
               /\ UNCHANGED <<syncState, auth, gists>>
        ELSE /\ IF create THEN \E g \in GistIds : ~gists[g].exists ELSE TRUE
             /\ gists' = PutGistFile(gistId, PushFileName, encrypted)
             /\ auth' = IF create THEN updateGistId(gistId) ELSE auth
             /\ syncState' = recordSync(gistId, collection.combinedHash,
                                        contextsHash, now + 1)
             /\ last' = [called EXCEPT !.outcome = "ok"]
  /\ UNCHANGED <<configDirExists, fs, claudeJson, mcpJson, contexts, pc, pending,
                 edits, remotePushes>>
  /\ Settle

(***************************************************************************)
(* CLI push, single-provider version (V1 payload) with the no-change       *)
(* short-circuit.                                                          *)
(***************************************************************************)
\* collectConfigFiles: the files of the OpenCode config root that match
\* configPatterns.all.
collectConfigFiles == DirCollectFiles("opencode")

pushCommandV1(force, fail) ==
  /\ pc = "idle" /\ now < MaxOps
  /\ Inject(fail)
  /\ now' = now + 1
  /\ LET collection == collectConfigFiles
         contextsHash == getContextsHash
         hasConfigChanges == syncState.configHash # collection.combinedHash
         hasContextChanges == syncState.contextsHash # contextsHash
         payload == PayloadV1(collection.files, collection.combinedHash,
                              ContextItems, contextsHash)
         encrypted == encryptObject(payload, auth.passphrase)
         obs == StartObservation("pushV1", force, {})
         create == auth.gistId = NoGist
         gistId == IF create THEN FreshGistId ELSE auth.gistId
         called == [obs EXCEPT !.remoteWrites = 1]
     IN IF fail = "collect"
          THEN /\ last' = Aborted(obs, "collect")
               /\ UNCHANGED <<syncState, auth, gists>>
        ELSE IF DOMAIN collection.files = {}
          THEN /\ last' = Aborted(obs, "nothing-collected")
               /\ UNCHANGED <<syncState, auth, gists>>
        ELSE IF ~hasConfigChanges /\ ~hasContextChanges /\ ~force
          THEN /\ last' = [obs EXCEPT !.outcome = "noop"]
               /\ UNCHANGED <<syncState, auth, gists>>
        ELSE IF fail = "encrypt"
          THEN /\ last' = Aborted(obs, "encrypt")
               /\ UNCHANGED <<syncState, auth, gists>>
        ELSE IF fail = "upload" \/ (~create /\ ~gists[gistId].exists)
          THEN /\ last' = Aborted(called, "upload")
               /\ UNCHANGED <<syncState, auth, gists>>
        ELSE /\ IF create THEN \E g \in GistIds : ~gists[g].exists ELSE TRUE
             /\ gists' = PutGistFile(gistId, PushFileName, encrypted)
             /\ auth' = IF create THEN updateGistId(gistId) ELSE auth
             /\ syncState' = recordSync(gistId, collection.combinedHash,
                                        contextsHash, now + 1)
             /\ last' = [called EXCEPT !.outcome = "ok"]
  /\ UNCHANGED <<configDirExists, fs, claudeJson, mcpJson, contexts, pc, pending,
                 edits, remotePushes>>
  /\ Settle

(***************************************************************************)
(* Editor push: performPush(auth, gistId, name) onto an existing           *)
(* environment (gist) or, with no gistId, onto a new one.                  *)
(***************************************************************************)
performPush(target, throwing, fail) ==
  /\ pc = "idle" /\ now < MaxOps
  /\ Inject(fail)
  /\ IF target = NoGist THEN TRUE ELSE gists[target].exists
  /\ now' = now + 1
  /\ LET thrown == {p \in throwing : isInstalled(p)}
         collection == collectFromProviders(Providers, throwing)
         contextsHash == getContextsHash
         payload == PayloadV2(
                      [p \in DOMAIN collection.results |->
                         [files |-> collection.results[p].files,
                          hash |-> collection.results[p].combinedHash]],
                      getGlobalMCPServers, ContextItems, contextsHash)
         encrypted == encryptObject(payload, auth.passphrase)
         obs == [StartObservation("performPush", FALSE, {})
                   EXCEPT !.failed = IF thrown = {} THEN {} ELSE {"collect"}]
         create == target = NoGist
         finalGistId == IF create THEN FreshGistId ELSE target
         called == [obs EXCEPT !.remoteWrites = 1]
     IN IF fail = "encrypt"
          THEN /\ last' = Aborted(obs, "encrypt")
               /\ UNCHANGED <<syncState, gists>>
        ELSE IF fail = "upload"
          THEN /\ last' = Aborted(called, "upload")
               /\ UNCHANGED <<syncState, gists>>
        ELSE /\ IF create THEN \E g \in GistIds : ~gists[g].exists ELSE TRUE
             /\ gists' = PutGistFile(finalGistId, PushFileName, encrypted)
             /\ syncState' = recordSync(finalGistId, collection.combinedHash,
                                        contextsHash, now + 1)
             /\ last' = [called EXCEPT !.outcome = "ok"]
  /\ UNCHANGED <<configDirExists, fs, claudeJson, mcpJson, contexts, auth, pc,
                 pending, edits, remotePushes>>
  /\ Settle


(***************************************************************************)
(* Pull: pieces shared by the three pull implementations.                  *)
(***************************************************************************)
\* A lookup that prefers the legacy file name.
SelectSyncFileLegacyFirst(files) ==
  IF files["opencodesync.json"].present
    THEN files["opencodesync.json"]
    ELSE files["coding-agent-sync.json"]

\* gist.files["coding-agent-sync.json"] || gist.files["opencodesync.json"]
SelectSyncFile(files) ==
  IF files["coding-agent-sync.json"].present
    THEN files["coding-agent-sync.json"]
    ELSE files["opencodesync.json"]

\* The ~/.mcp.json document pull builds from the payload's server list:
\* { mcpServers: { name: { type, command?, url?, disabled? } } } and no
\* other key.  (Server names are unique in the lists of the model.)
McpConfigFrom(servers) ==
  [state |-> "ok", hasMcpServers |-> TRUE,
   mcpServers |-> [i \in DOMAIN servers |->
                     [name |-> servers[i].name, type |-> servers[i].type,
                      command |-> servers[i].command, url |-> servers[i].url,
                      disabled |-> ~servers[i].enabled]],
   extra |-> Missing]

\* Order in which the CLI pull walks the requested providers.
CliOrder == <<"claude-code", "opencode", "codex">>

McpTarget == <<"home", ".mcp.json">>
ClaudeJsonTarget == <<"home", ".claude.json">>
ContextsTarget == <<"sync", "contexts.json">>

\* Targets that applyFiles(p, files) writes.
AppliedTargets(p, files, writeFails) ==
  IF p = "claude-code"
    THEN {<<p, path>> : path \in DOMAIN files \ {".claude.json"}}
         \cup (IF ".claude.json" \in DOMAIN files
                  /\ ~ClaudeJsonApplyFails(files, writeFails)
                 THEN {ClaudeJsonTarget} ELSE {})
    ELSE {<<p, path>> : path \in DOMAIN files}

\* provider.applyFiles for the providers of data, one after the other in the
\* given order; the call for provider failAt throws before it writes.
RECURSIVE ApplyEach(_, _, _, _, _)
ApplyEach(res, order, data, failAt, writeFails) ==
  IF order = <<>> THEN res
  ELSE LET p == Head(order)
       IN IF p \notin DOMAIN data
            THEN ApplyEach(res, Tail(order), data, failAt, writeFails)
          ELSE IF p = failAt
            THEN [res EXCEPT !.threw = TRUE, !.failed = @ \cup {"apply"}]
          ELSE ApplyEach(
                 [res EXCEPT
                    !.loc = applyFiles(p, res.loc, data[p].files, writeFails),
                    !.wrote = @ \cup AppliedTargets(p, data[p].files, writeFails),
                    !.failed = IF p = "claude-code"
                                  /\ ClaudeJsonApplyFails(data[p].files, writeFails)
                                 THEN @ \cup {"apply"} ELSE @],
                 Tail(order), data, failAt, writeFails)

FailAt(fail) ==
  CASE fail = "apply-opencode" -> "opencode"
    [] fail = "apply-claude-code" -> "claude-code"
    [] fail = "apply-codex" -> "codex"
    [] OTHER -> "none"

StartResult(loc) == [loc |-> loc, wrote |-> {}, failed |-> {}, threw |-> FALSE]

\* saveContexts(list): the context store is overwritten with the list.
SaveContextsStep(res, items, fail) ==
  IF res.threw THEN res
  ELSE IF fail = "contexts"
    THEN [res EXCEPT !.threw = TRUE, !.failed = @ \cup {"contexts"}]
  ELSE [res EXCEPT !.loc.contexts = PulledContexts(items),
                   !.wrote = @ \cup {ContextsTarget}]

\* writeFileSync(~/.mcp.json, JSON.stringify(mcpConfig)): the file is
\* replaced by the document built from the payload.
WriteMcpStep(res, payload, fail) ==
  IF ~payload.hasMcpServers THEN res
  ELSE IF fail = "mcp"
    THEN [res EXCEPT !.threw = TRUE, !.failed = @ \cup {"apply"}]
  ELSE [res EXCEPT !.loc.mcpJson = McpConfigFrom(payload.mcpServers),
                   !.wrote = @ \cup {McpTarget}]

ApplyStep(res, order, data, fail) ==
  IF res.threw THEN res
  ELSE ApplyEach(res, order, data, FailAt(fail), fail = "claude-json")

Restrict(f, S) == [x \in DOMAIN f \cap S |-> f[x]]

\* Access to payload.config of a payload that has no config: TypeError.
MissingConfig(res) == [res EXCEPT !.threw = TRUE, !.failed = @ \cup {"schema"}]

SetLocal(loc) ==
  /\ configDirExists' = loc.configDirExists
  /\ fs' = loc.fs
  /\ claudeJson' = loc.claudeJson
  /\ mcpJson' = loc.mcpJson
  /\ contexts' = loc.contexts

\* A pull that records SyncState before it knows how the writes went.
FinishPullEager(obs, res, recorded) ==
  /\ configDirExists' = res.loc.configDirExists
  /\ fs' = res.loc.fs
  /\ claudeJson' = res.loc.claudeJson
  /\ mcpJson' = res.loc.mcpJson
  /\ contexts' = res.loc.contexts
  /\ syncState' = recorded
  /\ last' = [obs EXCEPT !.outcome = IF res.threw THEN "error" ELSE "ok",
                         !.aborted = res.threw,
                         !.failed = @ \cup res.failed,
                         !.wrote = res.wrote]
  /\ pc' = "idle"
  /\ pending' = Idle

\* The end of a pull: the local writes of res are in place; SyncState is
\* recorded unless the run threw.
FinishPull(obs, res, recorded) ==
  /\ SetLocal(res.loc)
  /\ syncState' = IF res.threw THEN syncState ELSE recorded
  /\ last' = [obs EXCEPT !.outcome = IF res.threw THEN "error" ELSE "ok",
                         !.aborted = res.threw,
                         !.failed = @ \cup res.failed,
                         !.wrote = res.wrote]
  /\ pc' = "idle"
  /\ pending' = Idle

\* A pull that ends before anything is written.
EndPull(obs) ==
  /\ last' = obs
  /\ pc' = "idle"
  /\ pending' = Idle
  /\ UNCHANGED <<configDirExists, fs, claudeJson, mcpJson, contexts, syncState>>

\* Fetch, file lookup and decryption.  The result is the payload or the
\* failure.
Fetched(gistId, fail) ==
  IF gistId = NoGist THEN [ok |-> FALSE, failure |-> "not-configured"]
  ELSE IF fail = "fetch" \/ ~gists[gistId].exists
    THEN [ok |-> FALSE, failure |-> "fetch"]
  ELSE LET syncFile == SelectSyncFile(gists[gistId].files)
       IN IF ~syncFile.present THEN [ok |-> FALSE, failure |-> "no-sync-data"]
          ELSE IF fail = "decrypt" \/ syncFile.key # auth.passphrase
            THEN [ok |-> FALSE, failure |-> "decrypt"]
          ELSE [ok |-> TRUE, payload |-> syncFile.payload]


(***************************************************************************)
(* CLI pull, current version: one blanket confirmation, then the local     *)
(* configuration is replaced.                                              *)
(***************************************************************************)
\* The V1 fallback applies config.files to the OpenCode provider.
V1Data(payload) == "opencode" :> [files |-> payload.config.files]

\* The writes of pullCommand after the confirmation, from local state loc.
pullReplace(loc, payload, providerIds, fail) ==
  IF isPayloadV2(payload)
    THEN SaveContextsStep(
           ApplyStep(WriteMcpStep(StartResult(loc), payload, fail),
                     CliOrder, Restrict(payload.providers, providerIds), fail),
           payload.contexts.items, fail)
  ELSE IF ~payload.config.present THEN MissingConfig(StartResult(loc))
  ELSE SaveContextsStep(
         ApplyStep(StartResult(loc), <<"opencode">>, V1Data(payload), fail),
         payload.contexts.items, fail)

\* recordSync(auth.gistId, isPayloadV2(payload) ? "" : payload.config.hash, null)
pullRecorded(payload, gistId, time) ==
  recordSync(gistId,
             IF isPayloadV2(payload) THEN EmptyHash ELSE payload.config.hash,
             NullHash, time)

\* A prompt that is never due.
NeedsConfirmationNever(options) == FALSE

\* if (!options.force) { ... confirm ... }
NeedsConfirmation(options) == ~options.force

pullCommand(options, fail) ==
  /\ pc = "idle" /\ now < MaxOps
  /\ Inject(fail)
  /\ now' = now + 1
  /\ LET providerIds == determineProviders(options)
         fetched == Fetched(auth.gistId, fail)
         obs == [StartObservation("pull", options.force, options.ids)
                   EXCEPT !.providerIds = providerIds, !.gistId = auth.gistId]
     IN IF ~fetched.ok THEN EndPull(Aborted(obs, fetched.failure))
        ELSE LET seen == [obs EXCEPT !.payload = fetched.payload]
             IN IF NeedsConfirmation(options)
                  THEN /\ pc' = "confirm"
                       /\ pending' = [cmd |-> "pull", obs |-> seen]
                       /\ last' = [seen EXCEPT !.outcome = "prompt",
                                               !.prompted = TRUE]
                       /\ UNCHANGED <<configDirExists, fs, claudeJson, mcpJson,
                                      contexts, syncState>>
                ELSE FinishPull(seen,
                       pullReplace(Local, fetched.payload, providerIds, fail),
                       pullRecorded(fetched.payload, auth.gistId, now + 1))
  /\ UNCHANGED <<auth, gists, edits, remotePushes>>
  /\ Settle

\* The answer to "This will REPLACE all your local configurations ...".
pullAnswer(proceed, fail) ==
  /\ pc = "confirm" /\ pending.cmd = "pull"
  /\ Inject(fail)
  /\ LET obs == [pending.obs EXCEPT !.prompted = TRUE, !.confirmed = proceed]
     IN IF ~proceed THEN EndPull([obs EXCEPT !.outcome = "cancelled"])
        ELSE FinishPull(obs,
               pullReplace(Local, obs.payload, obs.providerIds, fail),
               pullRecorded(obs.payload, obs.gistId, now))
  /\ UNCHANGED <<auth, gists, now, edits, remotePushes>>
  /\ Settle

(***************************************************************************)
(* CLI pull, earlier version: per-file conflict detection, a prompt only   *)
(* when there are conflicts, files written directly under the config root. *)
(***************************************************************************)
\* determineProviders of the earlier pull: --claude, else --opencode, else
\* both (commander never sets options.all to false).
legacyDetermineProviders(options) ==
  IF "claude-code" \in options.ids THEN {"claude-code"}
  ELSE IF "opencode" \in options.ids THEN {"opencode"}
  ELSE {"claude-code", "opencode"}

LegacyOrder == <<"claude-code", "opencode">>

\* filesToPull, grouped by provider.
legacyFilesToPull(payload, providerIds) ==
  IF isPayloadV1(payload) THEN V1Data(payload)
  ELSE IF isPayloadV2(payload) THEN Restrict(payload.providers, providerIds)
  ELSE <<>>

\* A comparison that finds no conflict.
ConflictsOfNone(loc, data) == {}

\* The files of data whose local file exists with a different content.
ConflictsOf(loc, data) ==
  UNION {{<<p, path>> : path \in {q \in DOMAIN data[p].files :
                                    /\ loc.fs[p][q] # NoFile
                                    /\ loc.fs[p][q] # data[p].files[q]}}
         : p \in DOMAIN data}

\* writeFileSync(join(provider.configDir, file.path), file.content) for every
\* file, provider by provider; the first write for provider failAt throws.
RECURSIVE LegacyWriteEach(_, _, _, _)
LegacyWriteEach(res, order, data, failAt) ==
  IF order = <<>> THEN res
  ELSE LET p == Head(order)
       IN IF p \notin DOMAIN data \/ DOMAIN data[p].files = {}
            THEN LegacyWriteEach(res, Tail(order), data, failAt)
          ELSE IF p = failAt
            THEN [res EXCEPT !.threw = TRUE, !.failed = @ \cup {"apply"}]
          ELSE LegacyWriteEach(
                 [res EXCEPT
                    !.loc = DirApplyFiles(p, res.loc, data[p].files),
                    !.wrote = @ \cup {<<p, path>> : path \in DOMAIN data[p].files}],
                 Tail(order), data, failAt)

\* JSON.stringify(contextsToPull): the items as they are in the payload.
ItemJson(item) == [id |-> item.id, sessionId |-> Missing, size |-> Missing]

legacyRecorded(payload, gistId, time) ==
  LET items == payload.contexts.items
  IN recordSync(gistId,
                IF isPayloadV1(payload) THEN payload.config.hash ELSE EmptyHash,
                IF items # <<>>
                  THEN hashContent([i \in DOMAIN items |-> ItemJson(items[i])])
                  ELSE NullHash,
                time)

legacyWrite(loc, payload, providerIds, fail) ==
  SaveContextsStep(
    LegacyWriteEach(StartResult(loc), LegacyOrder,
                    legacyFilesToPull(payload, providerIds), FailAt(fail)),
    payload.contexts.items, fail)

pullCommandLegacy(options, fail) ==
  /\ pc = "idle" /\ now < MaxOps
  /\ Inject(fail)
  /\ now' = now + 1
  /\ LET providerIds == legacyDetermineProviders(options)
         fetched == Fetched(auth.gistId, fail)
         obs == [StartObservation("pullLegacy", options.force, options.ids)
                   EXCEPT !.providerIds = providerIds, !.gistId = auth.gistId]
     IN IF ~fetched.ok THEN EndPull(Aborted(obs, fetched.failure))
        ELSE LET payload == fetched.payload
                 data == legacyFilesToPull(payload, providerIds)
                 conflicts == ConflictsOf(Local, data)
                 seen == [obs EXCEPT !.payload = payload, !.reported = TRUE,
                                     !.conflicts = conflicts]
             IN IF \A p \in DOMAIN data : DOMAIN data[p].files = {}
                  THEN EndPull(Aborted([obs EXCEPT !.payload = payload],
                                       "nothing-to-pull"))
                ELSE IF conflicts # {} /\ ~options.force
                  THEN /\ pc' = "confirm"
                       /\ pending' = [cmd |-> "pullLegacy", obs |-> seen]
                       /\ last' = [seen EXCEPT !.outcome = "prompt",
                                               !.prompted = TRUE]
                       /\ UNCHANGED <<configDirExists, fs, claudeJson, mcpJson,
                                      contexts, syncState>>
                ELSE FinishPull(seen,
                       legacyWrite(Local, payload, providerIds, fail),
                       legacyRecorded(payload, auth.gistId, now + 1))
  /\ UNCHANGED <<auth, gists, edits, remotePushes>>
  /\ Settle

\* The answer to "Overwrite local files?".
pullAnswerLegacy(proceed, fail) ==
  /\ pc = "confirm" /\ pending.cmd = "pullLegacy"
  /\ Inject(fail)
  /\ LET obs == [pending.obs EXCEPT !.prompted = TRUE, !.confirmed = proceed]
     IN IF ~proceed THEN EndPull([obs EXCEPT !.outcome = "cancelled"])
        ELSE FinishPull(obs,
               legacyWrite(Local, obs.payload, obs.providerIds, fail),
               legacyRecorded(obs.payload, obs.gistId, now))
  /\ UNCHANGED <<auth, gists, now, edits, remotePushes>>
  /\ Settle


(***************************************************************************)
(* Editor pull: the command pullFromGist asks "Replace local configuration *)
(* ...?", performPull detects conflicts and asks again when there are any, *)
(* applyPull writes.  These are the commands of vscode/commands/sync.ts;   *)
(* the earlier registrations of the editor's push and pull commands that   *)
(* the tree keeps beside it are not modelled.                              *)
(***************************************************************************)
\* localMcpContent !== remoteMcpContent.  The remote text renders every
\* server with its "enabled" key, which no entry of a local file carries, so
\* the two texts agree only when both list no server and the local file has
\* no other key.
McpTextDiffers(local, servers) ==
  ~(/\ local.state = "ok" /\ local.hasMcpServers /\ local.extra = Missing
    /\ local.mcpServers = <<>> /\ servers = <<>>)

\* The providers whose files performPull compares and applyPull applies.
editorData(payload) ==
  IF isPayloadV2(payload) THEN payload.providers ELSE V1Data(payload)

performPullConflicts(loc, payload) ==
  (IF isPayloadV2(payload) /\ payload.hasMcpServers
      /\ loc.mcpJson.state # "absent"
      /\ McpTextDiffers(loc.mcpJson, payload.mcpServers)
     THEN {McpTarget} ELSE {})
  \cup ConflictsOf(loc, editorData(payload))

applyPull(loc, payload, fail) ==
  IF isPayloadV2(payload)
    THEN SaveContextsStep(
           ApplyStep(WriteMcpStep(StartResult(loc), payload, fail),
                     RegistryOrder, payload.providers, fail),
           payload.contexts.items, fail)
  ELSE IF ~payload.config.present THEN MissingConfig(StartResult(loc))
  ELSE SaveContextsStep(
         ApplyStep(StartResult(loc), <<"opencode">>, V1Data(payload), fail),
         payload.contexts.items, fail)

\* recordSync(gistId, configHash, contextsHash) of applyPull.
applyPullRecorded(payload, gistId, time) ==
  recordSync(gistId,
             IF isPayloadV2(payload) THEN EmptyHash ELSE payload.config.hash,
             payload.contexts.hash, time)

pullFromGist(target, confirm, fail) ==
  /\ pc = "idle" /\ now < MaxOps
  /\ Inject(fail)
  /\ gists[target].exists
  /\ now' = now + 1
  /\ LET obs == [StartObservation("performPull", FALSE, {})
                   EXCEPT !.prompted = TRUE, !.confirmed = confirm,
                          !.gistId = target, !.providerIds = Providers]
         fetched == Fetched(target, fail)
     IN IF ~confirm THEN EndPull([obs EXCEPT !.outcome = "cancelled"])
        ELSE IF ~fetched.ok THEN EndPull(Aborted(obs, fetched.failure))
        ELSE LET payload == fetched.payload
                 seen == [obs EXCEPT !.payload = payload]
             IN IF ~isPayloadV2(payload) /\ ~payload.config.present
                  THEN EndPull(Aborted(seen, "schema"))
                ELSE LET conflicts == performPullConflicts(Local, payload)
                         found == [seen EXCEPT !.reported = TRUE,
                                               !.conflicts = conflicts]
                     IN IF conflicts # {}
                          THEN /\ pc' = "conflicts"
                               /\ pending' = [cmd |-> "performPull", obs |-> found]
                               /\ last' = [found EXCEPT !.outcome = "prompt",
                                                        !.confirmed = FALSE]
                               /\ UNCHANGED <<configDirExists, fs, claudeJson,
                                              mcpJson, contexts, syncState>>
                        ELSE FinishPull(found, applyPull(Local, payload, fail),
                               applyPullRecorded(payload, target, now + 1))
  /\ UNCHANGED <<auth, gists, edits, remotePushes>>
  /\ Settle

\* The answer to "Conflicts detected in N files": dismissed, 'Overwrite All',
\* or 'Review Changes' followed by 'Confirm and Apply All' or by closing the
\* list.
EditorChoices == {"dismiss", "overwrite", "review-confirm", "review-close"}

performPullChoice(choice, fail) ==
  /\ pc = "conflicts" /\ pending.cmd = "performPull"
  /\ Inject(fail)
  /\ LET obs == pending.obs
     IN IF choice \in {"dismiss", "review-close"}
          THEN EndPull([obs EXCEPT !.outcome = "cancelled", !.confirmed = FALSE])
        ELSE FinishPull([obs EXCEPT !.confirmed = TRUE],
               applyPull(Local, obs.payload, fail),
               applyPullRecorded(obs.payload, obs.gistId, now))
  /\ UNCHANGED <<auth, gists, now, edits, remotePushes>>
  /\ Settle

(***************************************************************************)
(* Another device replaces the document of the linked gist.                *)
(***************************************************************************)
FooB == "agent/foo.md" :> "B"
HashFooB == combinedHashOf(FooB)
ServerS1 == [name |-> "s1", type |-> "stdio", command |-> "npx",
             url |-> Missing, enabled |-> TRUE]
ItemC2 == [id |-> "c2"]

RemotePayloads ==
  { PayloadV1(FooB, HashFooB, <<>>, NullHash),
    [PayloadV2("opencode" :> [files |-> FooB, hash |-> HashFooB],
               <<>>, <<>>, NullHash) EXCEPT !.hasMcpServers = FALSE],
    PayloadV2(("claude-code" :> [files |-> (".claude.json" :> StringifyMcpOnly("M2"))
                                           @@ ("CLAUDE.md" :> "B"),
                                 hash |-> EmptyHash])
              @@ ("codex" :> [files |-> "config.toml" :> "A", hash |-> EmptyHash]),
              <<ServerS1>>, <<ItemC2>>, hashContent(<<ItemJson(ItemC2)>>)),
    PayloadV2("claude-code" :> [files |-> ".claude.json" :> "A", hash |-> EmptyHash],
              <<>>, <<>>, NullHash),
    [PayloadV1(FooB, HashFooB, <<>>, NullHash) EXCEPT !.version = 3],
    [PayloadV2("opencode" :> [files |-> FooB, hash |-> HashFooB],
               <<>>, <<>>, NullHash) EXCEPT !.version = 3] }

\* What another device uploads: the payload, the passphrase it encrypts
\* with and the file name it writes.
RemoteUploads ==
  {[payload |-> payload, key |-> "K1", file |-> "opencodesync.json"] :
     payload \in RemotePayloads}
  \cup {[payload |-> PayloadV1(FooB, HashFooB, <<>>, NullHash),
          key |-> "K2", file |-> "opencodesync.json"],
         [payload |-> PayloadV1(FooB, HashFooB, <<>>, NullHash),
          key |-> "K1", file |-> "coding-agent-sync.json"]}

OtherDevicePush(upload) ==
  /\ pc = "idle" /\ remotePushes < MaxRemote
  /\ auth.gistId # NoGist /\ gists[auth.gistId].exists
  /\ gists' = PutGistFile(auth.gistId, upload.file,
                          encryptObject(upload.payload, upload.key))
  /\ remotePushes' = remotePushes + 1
  /\ UNCHANGED <<configDirExists, fs, claudeJson, mcpJson, contexts, syncState,
                 auth, pc, pending, now, edits, faults, last>>
  /\ dirty' = [dirty EXCEPT !.remote = TRUE]

(***************************************************************************)
(* Inputs of the commands.                                                 *)
(***************************************************************************)
CliOptions ==
  {[ids |-> ids, all |-> FALSE, force |-> f] :
     ids \in {{}, {"claude-code"}}, f \in BOOLEAN}

PushFailures == {"none", "collect", "encrypt", "upload"}
PullFailures == {"none", "fetch", "decrypt", "mcp", "apply-opencode",
                 "apply-claude-code", "claude-json", "contexts"}
Throwing(fail) == IF fail = "collect" THEN {"claude-code"} ELSE {}

LocalEdit ==
  \/ \E p \in Providers, c \in {"B", NoFile} :
       \E path \in SyncablePaths(p) : WriteLocalFile(p, path, c)
  \/ \E doc \in ClaudeJsonDocs : EditClaudeJson(doc)
  \/ \E id \in {"c1"}, s \in {"s1"} : addContext(id, s)

Push ==
  \/ \E o \in CliOptions, fail \in PushFailures :
       pushCommand(o, Throwing(fail), fail)
  \/ \E f \in BOOLEAN, fail \in PushFailures : pushCommandV1(f, fail)
  \/ \E g \in GistIds \cup {NoGist}, fail \in PushFailures :
       performPush(g, Throwing(fail), fail)

Pull ==
  \/ \E o \in CliOptions, fail \in PullFailures : pullCommand(o, fail)
  \/ \E b \in BOOLEAN, fail \in PullFailures : pullAnswer(b, fail)
  \/ \E o \in CliOptions, fail \in PullFailures : pullCommandLegacy(o, fail)
  \/ \E b \in BOOLEAN, fail \in PullFailures : pullAnswerLegacy(b, fail)
  \/ \E g \in GistIds, b \in BOOLEAN, fail \in PullFailures :
       pullFromGist(g, b, fail)
  \/ \E c \in EditorChoices, fail \in PullFailures : performPullChoice(c, fail)

Remote == \E upload \in RemoteUploads : OtherDevicePush(upload)

Next == LocalEdit \/ Push \/ Pull \/ Remote

Spec == Init /\ [][Next]_vars


(***************************************************************************)
(* Vocabulary of the properties.                                           *)
(***************************************************************************)
PullCmds == {"pull", "pullLegacy", "performPull"}
CliPushCmds == {"push", "pushV1"}

\* The step is a step of a sync command (and not a local edit or a push by
\* another device): it starts a command or answers a prompt.
CommandStep == now' # now \/ pc # "idle"

\* The step wrote to the local configuration.
WroteLocally == last'.wrote # {} \/ localVars' # localVars

\* The pull of the last command got its payload (fetch and decryption went
\* through).
GotPayload(obs) == obs.cmd \in PullCmds /\ obs.payload # <<>>

(***************************************************************************)
(* C1 (as stated): a CLI push that repeats a successful CLI push, with no  *)
(* change to the collected files or the context store in between and       *)
(* without --force, makes no createGist/updateGist call and ends with the  *)
(* "no changes" result.                                                    *)
(***************************************************************************)
C1_NoOpPush ==
  (/\ last.cmd \in CliPushCmds
   /\ last.repeat
   /\ ~last.force
   /\ last.failed = {})
  => (last.remoteWrites = 0 /\ last.outcome = "noop")

(***************************************************************************)
(* C2 (as stated): in a pull without --force nothing is written locally    *)
(* before the user has confirmed, and a pull that waits at the prompt or   *)
(* was declined has written nothing and left SyncState as it was.          *)
(***************************************************************************)
C2_NoWriteBeforeConfirm ==
  [][(CommandStep /\ last'.cmd \in PullCmds /\ ~last'.force)
       => /\ WroteLocally => last'.confirmed
          /\ last'.outcome \in {"prompt", "cancelled"}
               => (UNCHANGED <<localVars, syncState>> /\ last'.wrote = {})]_vars

\* The pulls that ask before they write: pullCommand and the editor's
\* pullFromGist always, the earlier pullCommand when it found a conflict.
PromptDue(obs) ==
  \/ obs.cmd \in {"pull", "performPull"}
  \/ obs.cmd = "pullLegacy" /\ obs.conflicts # {}

(***************************************************************************)
(* C2 (amended): in a pull without --force that asks for a confirmation    *)
(* nothing is written locally before the user has confirmed; a pull that   *)
(* waits at the prompt or was declined has written nothing and left        *)
(* SyncState as it was.                                                    *)
(***************************************************************************)
C2_NoWriteBeforeDueConfirm ==
  [][(CommandStep /\ last'.cmd \in PullCmds /\ ~last'.force)
       => /\ (PromptDue(last') /\ WroteLocally) => last'.confirmed
          /\ last'.outcome \in {"prompt", "cancelled"}
               => (UNCHANGED <<localVars, syncState>> /\ last'.wrote = {})]_vars

\* A pull without --force wrote after the user confirmed.
C2_Witness ==
  /\ last.cmd \in PullCmds /\ ~last.force
  /\ last.prompted /\ last.confirmed
  /\ last.wrote # {}
  /\ last.outcome = "ok"

RemoteFilesOf(payload) ==
  IF isPayloadV2(payload) THEN payload.providers
  ELSE "opencode" :> [files |-> payload.config.files]

ExpectedConflicts(loc, payload, providerIds) ==
  LET remote == RemoteFilesOf(payload)
  IN {<<p, path>> \in Providers \X Paths :
        /\ p \in providerIds /\ p \in DOMAIN remote
        /\ path \in DOMAIN remote[p].files
        /\ loc.fs[p][path] # NoFile
        /\ loc.fs[p][path] # remote[p].files[path]}

(***************************************************************************)
(* C4 (as stated): the conflict set a pull reports is exactly the set of   *)
(* remote files of the requested providers whose relative path exists      *)
(* locally with a content different from the remote one.                   *)
(***************************************************************************)
C4_ConflictSetExact ==
  (/\ GotPayload(last)
   /\ last.payload.version \in {1, 2}
   /\ ~last.force
   /\ last.outcome \in {"prompt", "cancelled", "ok"})
  => /\ last.reported
     /\ last.conflicts
          = ExpectedConflicts(last.localBefore, last.payload, last.providerIds)

\* Both sides changed since this device's last sync: a local edit and a push
\* by another device set their flag, a command that went through clears both.
BothChanged == dirty.local /\ dirty.remote

LocalFileOverwritten ==
  \E p \in Providers, path \in Paths :
    fs[p][path] # NoFile /\ fs'[p][path] # fs[p][path]

V2Twin(payload) ==
  [PayloadV2("opencode" :> [files |-> payload.config.files,
                            hash |-> payload.config.hash],
             <<>>, payload.contexts.items, payload.contexts.hash)
     EXCEPT !.hasMcpServers = FALSE]

\* The writes of a pull of the payload by the CLI or by the editor.
PullWrites(cmd, loc, payload, providerIds) ==
  IF cmd = "pull" THEN pullReplace(loc, payload, providerIds, "none")
  ELSE applyPull(loc, payload, "none")

(***************************************************************************)
(* C6 (as stated): a pull of a V1 payload with config.files = F writes the *)
(* same local files and the same context store as a pull, with the same    *)
(* requested providers, of the V2 payload whose providers.opencode.files   *)
(* = F and whose contexts are the same.                                    *)
(***************************************************************************)
C6_V1ReadsAsV2 ==
  [][(/\ CommandStep
      /\ last'.cmd \in {"pull", "performPull"}
      /\ last'.outcome = "ok" /\ last'.failed = {}
      /\ isPayloadV1(last'.payload))
       => Local' = PullWrites(last'.cmd, Local, V2Twin(last'.payload),
                              last'.providerIds).loc]_vars

(***************************************************************************)
(* C7 (as stated): a pull whose payload has a version that is neither 1    *)
(* nor 2 writes no provider file, leaves ~/.mcp.json and the context store *)
(* alone and does not update SyncState.                                    *)
(***************************************************************************)
C7_FailClosed ==
  [][(CommandStep /\ GotPayload(last') /\ last'.payload.version \notin {1, 2})
       => (UNCHANGED <<localVars, syncState>> /\ last'.wrote = {})]_vars

(***************************************************************************)
(* C9 (as stated): when a pull writes ~/.mcp.json from a V2 payload, every *)
(* top-level key of the file other than mcpServers keeps its value.        *)
(***************************************************************************)
C9_McpJsonMerged ==
  [][(/\ CommandStep
      /\ last'.cmd \in PullCmds
      /\ McpTarget \in last'.wrote
      /\ mcpJson.state = "ok")
       => mcpJson'.extra = mcpJson.extra]_vars

(***************************************************************************)
(* applyFiles on its own: the initial state draws the local configuration, *)
(* the one step applies a set of incoming files to one provider.           *)
(***************************************************************************)
LocalTrees == [Paths -> {NoFile, "A"}]

LocalClaudeJsons ==
  {[state |-> "ok", mcpServers |-> "M1", theme |-> "dark"],
   [state |-> "ok", mcpServers |-> Missing, theme |-> "dark"],
   [state |-> "corrupt", mcpServers |-> Missing, theme |-> Missing],
   [state |-> "absent", mcpServers |-> Missing, theme |-> Missing]}

InitApply ==
  /\ \E rootsExist \in BOOLEAN, tree \in LocalTrees :
       /\ configDirExists = [p \in Providers |-> rootsExist]
       /\ fs = [p \in Providers |-> IF rootsExist THEN tree ELSE NoDir]
  /\ claudeJson \in LocalClaudeJsons
  /\ mcpJson = [state |-> "ok", hasMcpServers |-> TRUE, mcpServers |-> <<>>,
                extra |-> "inputs"]
  /\ contexts = <<>>
  /\ syncState = DEFAULT_STATE
  /\ auth = [gistId |-> NoGist, passphrase |-> "K1"]
  /\ gists = [g \in GistIds |-> [exists |-> FALSE, files |-> NoGistFiles]]
  /\ pc = "idle"
  /\ pending = Idle
  /\ now = 0
  /\ edits = 0
  /\ remotePushes = 0
  /\ faults = 0
  /\ dirty = Clean
  /\ last = NoObservation

\* Incoming file sets: any of the regular paths with content "B", and
\* possibly a .claude.json entry that carries servers, carries none, or does
\* not parse.
IncomingFiles ==
  UNION {{[path \in S |-> "B"] @@ extra :
            extra \in {<<>>} \cup {".claude.json" :> c :
                                     c \in {StringifyMcpOnly("M2"), "{}", "A"}}}
         : S \in SUBSET (Paths \ {".claude.json"})}

\* provider.applyFiles(files)
ApplyFilesStep(p, files, writeFails) ==
  /\ last.cmd = "none"
  /\ SetLocal(applyFiles(p, Local, files, writeFails))
  /\ last' = [NoObservation EXCEPT
                !.cmd = "applyFiles", !.localBefore = Local,
                !.providerIds = {p}, !.payload = files,
                !.wrote = AppliedTargets(p, files, writeFails),
                !.failed = IF p = "claude-code"
                              /\ ClaudeJsonApplyFails(files, writeFails)
                             THEN {"apply"} ELSE {}]
  /\ UNCHANGED <<syncState, auth, gists, pc, pending, now, edits, remotePushes,
                 faults, dirty>>

NextApply ==
  \E p \in Providers, files \in IncomingFiles, writeFails \in BOOLEAN :
    ApplyFilesStep(p, files, writeFails)

SpecApply == InitApply /\ [][NextApply]_vars

\* The provider, the incoming files and the local state of the apply that
\* was observed.
AppliedTo == CHOOSE p \in Providers : last.providerIds = {p}

\* No file outside the incoming set was deleted or modified.
OthersUntouched ==
  \A q \in Providers, path \in Paths :
    (q # AppliedTo \/ path \notin DOMAIN last.payload)
      => fs[q][path] = last.localBefore.fs[q][path]

(***************************************************************************)
(* C8 (as stated): applyFiles never deletes or modifies a file under the   *)
(* config root whose path is not in the incoming set, and afterwards every *)
(* incoming file is at configRoot/relativePath with the incoming content.  *)
(***************************************************************************)
C8_ApplyAdditiveAndPlaced ==
  last.cmd = "applyFiles"
  => /\ OthersUntouched
     /\ \A path \in DOMAIN last.payload :
          fs[AppliedTo][path] = last.payload[path]

(***************************************************************************)
(* C8 (amended): applyFiles never deletes or modifies a file under the     *)
(* config root whose path is not in the incoming set, and afterwards every *)
(* incoming file, other than the Claude Code provider's .claude.json       *)
(* entry, is at configRoot/relativePath with the incoming content.         *)
(***************************************************************************)
C8_ApplyAdditive ==
  last.cmd = "applyFiles"
  => /\ OthersUntouched
     /\ \A path \in DOMAIN last.payload :
          \/ AppliedTo = "claude-code" /\ path = ".claude.json"
          \/ fs[AppliedTo][path] = last.payload[path]

\* An apply overwrote one file and left a file that is not in the incoming
\* set in place.
C8_Witness ==
  /\ last.cmd = "applyFiles"
  /\ \E path \in DOMAIN last.payload :
       /\ last.localBefore.fs[AppliedTo][path] = "A"
       /\ fs[AppliedTo][path] = "B"
  /\ \E path \in Paths \ DOMAIN last.payload : fs[AppliedTo][path] = "A"

MaxRuns == 2

\* Names that can occur under the config roots.  The two names under agent/
\* are one name in the two Unicode normalisation forms (precomposed
\* U+00E9, and e followed by combining U+0301): distinct names to the file
\* system, canonically equivalent strings to String.prototype.localeCompare.
RootPaths(p) ==
  CASE p = "opencode" -> {"agent/caf<U+00E9>.md", "agent/cafe<U+0301>.md",
                          "package.json"}
    [] p = "claude-code" -> {"CLAUDE.md", "debug.log"}
    [] p = "codex" -> {"auth.json", "config.toml"}

AllRootPaths == UNION {RootPaths(p) : p \in Providers} \cup {".claude.json"}

OPENCODE_PATTERNS ==
  <<"opencode.json", "opencode.jsonc", "command/**/*.md", "agent/**/*.md",
    "skill/**/*", "AGENTS.md", "antigravity.json", "dcp.jsonc",
    "oh-my-opencode.json", "smart-title.jsonc">>

OPENCODE_BLOCKLIST ==
  <<"antigravity-accounts.json", "package.json", "package-lock.json",
    "bun.lock", "node_modules/**", "logs/**", "repos/**", ".git/**">>

CLAUDE_PATTERNS ==
  <<"settings.json", "settings.local.json", "commands/**/*.md",
    "agents/**/*.md", "rules/**/*.md", "CLAUDE.md">>

CLAUDE_BLOCKLIST ==
  <<"projects/**", "todos/**", "statsig/**", "local/**", "node_modules/**",
    ".git/**", "*.log", "*.tmp">>

CODEX_PATTERNS == <<"config.toml", "skills/**/*.md">>

CODEX_BLOCKLIST == <<"auth.json", "sessions/**", "node_modules/**", ".git/**">>

\* configPatterns.all and syncBlocklist of utils/paths.ts, used by the
\* deprecated collectConfigFiles.
configPatterns ==
  <<"opencode.json", "opencode.jsonc", "agent/**/*.md", "command/**/*.md",
    "AGENTS.md", "*.jsonc", "oh-my-opencode.json", "skills/**/*">>

syncBlocklist ==
  <<"antigravity-*.json", "package.json", "package-lock.json", "bun.lock",
    "node_modules/**", "logs/**", "repos/**", ".git/**">>

getAllPatterns(p) ==
  CASE p = "opencode" -> OPENCODE_PATTERNS
    [] p = "claude-code" -> CLAUDE_PATTERNS
    [] p = "codex" -> CODEX_PATTERNS

blocklist(p) ==
  CASE p = "opencode" -> OPENCODE_BLOCKLIST
    [] p = "claude-code" -> CLAUDE_BLOCKLIST
    [] p = "codex" -> CODEX_BLOCKLIST

\* minimatch(path, pattern), which glob also uses to expand a pattern, on
\* the names of AllRootPaths: a pattern without a slash matches top-level
\* names only, "dir/**" matches the names under the top-level dir.
minimatch(path, pattern) ==
  \/ pattern = path
  \/ pattern = "agent/**/*.md"
       /\ path \in {"agent/caf<U+00E9>.md", "agent/cafe<U+0301>.md"}
  \/ pattern = "*.log" /\ path = "debug.log"

SeqRange(s) == {s[i] : i \in DOMAIN s}

\* patterns.some((pattern) => minimatch(relativePath, pattern))
isBlocked(patterns, relativePath) ==
  \E pattern \in SeqRange(patterns) : minimatch(relativePath, pattern)

\* Every order in which a directory listing can return the names of S.
Orderings(S) ==
  {s \in [1..Cardinality(S) -> S] :
     \A i, j \in 1..Cardinality(S) : s[i] = s[j] => i = j}

\* a.localeCompare(b) on the names of AllRootPaths, as the sign of the
\* difference of their ranks in the collation order.  Punctuation sorts
\* before letters, case is a lower-level difference, and canonically
\* equivalent strings compare equal (ECMA-262, String.prototype.
\* localeCompare).
LocaleRank(path) ==
  CASE path = ".claude.json" -> 0
    [] path \in {"agent/caf<U+00E9>.md", "agent/cafe<U+0301>.md"} -> 1
    [] path = "auth.json" -> 2
    [] path = "CLAUDE.md" -> 3
    [] path = "config.toml" -> 4
    [] path = "debug.log" -> 5
    [] path = "package.json" -> 6

\* Array.prototype.sort is stable: elements that compare equal keep the
\* order they were pushed in.  The elements are <<key, value>> pairs.
RECURSIVE InsertByKey(_, _)
InsertByKey(sorted, e) ==
  IF sorted = <<>> THEN <<e>>
  ELSE IF Head(sorted)[1] <= e[1]
    THEN <<Head(sorted)>> \o InsertByKey(Tail(sorted), e)
    ELSE <<e>> \o sorted

RECURSIVE StableSort(_)
StableSort(keyed) ==
  IF keyed = <<>> THEN <<>>
  ELSE InsertByKey(StableSort(SubSeq(keyed, 1, Len(keyed) - 1)),
                   keyed[Len(keyed)])

CollectedFile(relativePath, content) ==
  [relativePath |-> relativePath, content |-> content,
   hash |-> hashContent(content)]

\* files.sort((a, b) => a.relativePath.localeCompare(b.relativePath))
SortFiles(files) ==
  LET keyed == [i \in DOMAIN files |->
                  <<LocaleRank(files[i].relativePath), files[i]>>]
      sorted == StableSort(keyed)
  IN [i \in DOMAIN sorted |-> sorted[i][2]]

\* A file the collection loop keeps: glob returned it for the pattern and
\* it is not blocked.
KeptAny(pattern, blocked, tree, path) == tree[path] # NoFile

Kept(pattern, blocked, tree, path) ==
  /\ tree[path] # NoFile
  /\ minimatch(path, pattern)
  /\ ~isBlocked(blocked, path)

\* for (const pattern of allPatterns) for (const match of matches) ... push:
\* the patterns in their declared order, the matches of one pattern in the
\* order of the directory listing.
RECURSIVE CollectMatches(_, _, _, _)
CollectMatches(patterns, blocked, tree, listing) ==
  IF patterns = <<>> THEN <<>>
  ELSE LET keep(path) == Kept(Head(patterns), blocked, tree, path)
           matches == SelectSeq(listing, keep)
       IN [i \in DOMAIN matches |->
             CollectedFile(matches[i], tree[matches[i]])]
          \o CollectMatches(Tail(patterns), blocked, tree, listing)

\* hashContent(files.map(f => `${f.relativePath}:${f.hash}`).join("\n")),
\* or "" for an empty list.
CombinedHashAlways(files) ==
  hashContent([i \in DOMAIN files |-> <<files[i].relativePath, files[i].hash>>])

CombinedHash(files) ==
  IF files = <<>> THEN EmptyHash ELSE CombinedHashAlways(files)

Snapshot(pushed) ==
  LET files == SortFiles(pushed)
  IN [files |-> files, combinedHash |-> CombinedHash(files)]

\* The ".claude.json" entry ClaudeCodeProvider.collectFiles appends when
\* ~/.claude.json parses and has mcpServers.
ClaudeJsonEntry ==
  IF claudeJson.state = "ok" /\ claudeJson.mcpServers # Missing
    THEN <<CollectedFile(".claude.json",
                         StringifyMcpOnly(claudeJson.mcpServers))>>
    ELSE <<>>

\* collectFiles of the three providers, given the order in which the file
\* system lists the config root.
collectFilesListed(p, listing) ==
  IF p = "claude-code"
    THEN Snapshot((IF configDirExists[p]
                     THEN CollectMatches(getAllPatterns(p), blocklist(p),
                                         fs[p], listing)
                     ELSE <<>>)
                  \o ClaudeJsonEntry)
  ELSE IF ~configDirExists[p]
    THEN [files |-> <<>>, combinedHash |-> EmptyHash]
  ELSE Snapshot(CollectMatches(getAllPatterns(p), blocklist(p), fs[p],
                               listing))

\* core/collector.ts collectConfigFiles (deprecated): the OpenCode config
\* root with the patterns and blocklist of utils/paths.ts.
collectConfigFilesListed(listing) ==
  IF ~configDirExists["opencode"]
    THEN [files |-> <<>>, combinedHash |-> EmptyHash]
  ELSE Snapshot(CollectMatches(configPatterns, syncBlocklist, fs["opencode"],
                               listing))

\* A fixed listing of each config root.
DefaultListing(p) == CHOOSE listing \in Orderings(RootPaths(p)) : TRUE

\* allHashes.sort(): code-unit order of the `${id}:${hash}` strings, which
\* the provider ids decide.
IdRank(id) == CHOOSE i \in DOMAIN IdOrder : IdOrder[i] = id

SortHashesNone(allHashes) == allHashes

SortHashes(allHashes) ==
  LET keyed == [i \in DOMAIN allHashes |->
                  <<IdRank(allHashes[i][1]), allHashes[i]>>]
      sorted == StableSort(keyed)
  IN [i \in DOMAIN sorted |-> sorted[i][2]]

\* collectFromProviders, given the order in which getProviders returns the
\* installed providers: the results Map keeps that order, the "id:hash"
\* strings of the non-empty snapshots are pushed in it and then sorted.
collectFromProvidersOrdered(providers) ==
  LET results == [i \in DOMAIN providers |->
                    collectFilesListed(providers[i],
                                       DefaultListing(providers[i]))]
      hashed(i) == results[i].combinedHash # EmptyHash
      kept == SelectSeq([i \in DOMAIN providers |-> i], hashed)
      pushed == [k \in DOMAIN kept |->
                   <<providers[kept[k]], results[kept[k]].combinedHash>>]
      allHashes == SortHashes(pushed)
  IN [results |-> [p \in SeqRange(providers) |->
                     results[CHOOSE i \in DOMAIN providers : providers[i] = p]],
      combinedHash |-> IF allHashes = <<>> THEN EmptyHash
                       ELSE hashContent(allHashes)]

(***************************************************************************)
(* Specification of the collection alone: any config roots, and up to      *)
(* MaxRuns collections of one kind over them, each under some listing      *)
(* order or provider order.                                                *)
(***************************************************************************)
RootTrees(p) == [RootPaths(p) -> {NoFile, "A"}]

NoRoot(p) == [path \in RootPaths(p) |-> NoFile]

InitCollect ==
  /\ configDirExists \in [Providers -> BOOLEAN]
  /\ fs \in [Providers -> UNION {RootTrees(p) : p \in Providers}]
  /\ \A p \in Providers :
       /\ fs[p] \in RootTrees(p)
       /\ ~configDirExists[p] => fs[p] = NoRoot(p)
  /\ claudeJson \in LocalClaudeJsons
  /\ mcpJson = [state |-> "absent", hasMcpServers |-> FALSE,
                mcpServers |-> <<>>, extra |-> Missing]
  /\ contexts = <<>>
  /\ syncState = DEFAULT_STATE
  /\ auth = [gistId |-> NoGist, passphrase |-> "K1"]
  /\ gists = [g \in GistIds |-> [exists |-> FALSE, files |-> NoGistFiles]]
  /\ pc = "idle"
  /\ pending = Idle
  /\ now = 0
  /\ edits = 0
  /\ remotePushes = 0
  /\ faults = 0
  /\ dirty = Clean
  /\ last = [cmd |-> "none", target |-> "none", runs |-> <<>>]

\* Up to MaxRuns runs of one collection over one target are observed.
CanRun(cmd, target) ==
  \/ last.cmd = "none"
  \/ last.cmd = cmd /\ last.target = target /\ Len(last.runs) < MaxRuns

Recorded(cmd, target, order, result) ==
  [cmd |-> cmd, target |-> target,
   runs |-> Append(last.runs, [order |-> order, result |-> result])]

\* provider.collectFiles()
CollectFilesStep(p, listing) ==
  /\ CanRun("collectFiles", p)
  /\ last' = Recorded("collectFiles", p, listing,
                      collectFilesListed(p, listing))
  /\ UNCHANGED localVars
  /\ UNCHANGED <<syncState, auth, gists, pc, pending, now, edits, remotePushes,
                 faults, dirty>>

\* collectConfigFiles()
CollectConfigFilesStep(listing) ==
  /\ CanRun("collectConfigFiles", "opencode")
  /\ last' = Recorded("collectConfigFiles", "opencode", listing,
                      collectConfigFilesListed(listing))
  /\ UNCHANGED localVars
  /\ UNCHANGED <<syncState, auth, gists, pc, pending, now, edits, remotePushes,
                 faults, dirty>>

\* collectFromProviders()
CollectFromProvidersStep(providers) ==
  /\ CanRun("collectFromProviders", "all")
  /\ last' = Recorded("collectFromProviders", "all", providers,
                      collectFromProvidersOrdered(providers))
  /\ UNCHANGED localVars
  /\ UNCHANGED <<syncState, auth, gists, pc, pending, now, edits, remotePushes,
                 faults, dirty>>

NextCollect ==
  \/ \E p \in Providers :
       \E listing \in Orderings(RootPaths(p)) : CollectFilesStep(p, listing)
  \/ \E listing \in Orderings(RootPaths("opencode")) :
       CollectConfigFilesStep(listing)
  \/ \E providers \in Orderings({p \in Providers : isInstalled(p)}) :
       CollectFromProvidersStep(providers)

SpecCollect == InitCollect /\ [][NextCollect]_vars

\* The results of the runs observed so far.
RunResults == {last.runs[i].result : i \in DOMAIN last.runs}

\* The files of the last run's result.
LastRun == last.runs[Len(last.runs)]

(***************************************************************************)
(* C11: for a fixed set of files under a config root, collectFiles (and    *)
(* the deprecated collectConfigFiles) returns the same ordered files       *)
(* sequence and the same combinedHash whatever the order in which the      *)
(* file system lists the matches.                                          *)
(***************************************************************************)
C11_CollectDeterministic ==
  last.cmd \in {"collectFiles", "collectConfigFiles"}
    => Cardinality(RunResults) <= 1

(***************************************************************************)
(* C12: the combinedHash of collectFromProviders over the same provider    *)
(* snapshots is the same whatever the order in which the providers are     *)
(* enumerated.                                                             *)
(***************************************************************************)
C12_ProviderOrderIrrelevant ==
  last.cmd = "collectFromProviders"
    => Cardinality({r.combinedHash : r \in RunResults}) <= 1

\* Two collections over at least two non-empty snapshots enumerated the
\* providers in different orders.
C12_Witness ==
  /\ last.cmd = "collectFromProviders"
  /\ Len(last.runs) = 2
  /\ last.runs[1].order # last.runs[2].order
  /\ Cardinality({p \in DOMAIN LastRun.result.results :
                    LastRun.result.results[p].combinedHash # EmptyHash}) >= 2

MaxTamper == 1

\* A byte string: the term it was computed as, whether a bit of it was
\* flipped since, and whether it was cut to its first 4 bytes.
Bytes(term) == [term |-> term, flipped |-> FALSE, short |-> FALSE]

Passphrases == {"K1", "K2"}
Salts == {Bytes("salt1"), Bytes("salt2")}
Ivs == {Bytes("iv1"), Bytes("iv2")}

\* Objects handed to encryptObject.  The last has a property whose value
\* is undefined, which JSON.stringify leaves out.
CryptoObjects ==
  {[name |-> "s1", command |-> "npx"],
   [id |-> "c2", source |-> "cli"],
   [name |-> "s1", command |-> "npx", url |-> Missing]}

\* JSON.stringify(obj) and JSON.parse(json) on these objects.
JsonStringify(obj) ==
  <<"json", [k \in {f \in DOMAIN obj : obj[f] # Missing} |-> obj[k]]>>

JsonParseObject(json) == json[2]

\* buffer.toString("base64") and Buffer.from(s, "base64"): a base64 string
\* is the bytes it encodes and the value of the spare bits of its last
\* character (zero as toString writes it).
toBase64(bytes) == <<bytes, "spare=0">>
fromBase64(s) == s[1]

\* cipher.update(plaintext, "utf8") and decrypted.toString("utf8").
utf8Bytes(text) == [utf8 |-> text]
utf8Text(bytes) == bytes.utf8

\* pbkdf2Sync(passphrase, salt, PBKDF2_ITERATIONS, KEY_LENGTH, PBKDF2_DIGEST)
deriveKey(passphrase, salt) == Bytes(<<"pbkdf2", passphrase, salt>>)

\* createCipheriv("aes-256-gcm", key, iv): update/final and getAuthTag.
GcmEncrypt(key, iv, bytes) == Bytes(<<"gcm", key, iv, bytes>>)
GcmTag(key, iv, ciphertext) == Bytes(<<"tag", key, iv, ciphertext>>)

\* The first 4 bytes of a tag.
ShortTag(tag) == [tag EXCEPT !.short = TRUE]

\* decipher.setAuthTag(tag) ... decipher.final(): the tag verifies when it
\* is the tag of (key, iv, ciphertext) or a valid shorter prefix of it.
GcmVerifiesNever(key, iv, ciphertext, tag) == FALSE

GcmVerifies(key, iv, ciphertext, tag) ==
  \/ tag = GcmTag(key, iv, ciphertext)
  \/ tag = ShortTag(GcmTag(key, iv, ciphertext))

\* encrypt(plaintext, passphrase), with the salt and IV randomBytes returns.
encrypt(plaintext, passphrase, salt, iv) ==
  LET key == deriveKey(passphrase, salt)
      encrypted == GcmEncrypt(key, iv, utf8Bytes(plaintext))
      tag == GcmTag(key, iv, encrypted)
  IN [ciphertext |-> toBase64(encrypted), iv |-> toBase64(iv),
      tag |-> toBase64(tag), salt |-> toBase64(salt), version |-> 1]

Thrown(message) == [ok |-> FALSE, error |-> message]
Returned(value) == [ok |-> TRUE, value |-> value]

\* decrypt(data, passphrase)
decrypt(data, passphrase) ==
  IF data.version # 1 THEN Thrown("Unsupported encryption version")
  ELSE LET ciphertext == fromBase64(data.ciphertext)
           iv == fromBase64(data.iv)
           tag == fromBase64(data.tag)
           salt == fromBase64(data.salt)
           key == deriveKey(passphrase, salt)
       IN IF GcmVerifies(key, iv, ciphertext, tag)
            THEN Returned(utf8Text(ciphertext.term[4]))
            ELSE Thrown("Decryption failed")

\* encryptObject(obj, passphrase) and decryptObject(data, passphrase) with
\* the envelope spelled out.
encryptObjectWith(obj, passphrase, salt, iv) ==
  encrypt(JsonStringify(obj), passphrase, salt, iv)

decryptObject(data, passphrase) ==
  LET json == decrypt(data, passphrase)
  IN IF json.ok THEN Returned(JsonParseObject(json.value)) ELSE json

\* Alterations of one field of a stored envelope: the encoded bytes
\* changed (a flipped bit), the spare bits of the last base64 character
\* changed, or (the tag) cut to its first 4 bytes.
EnvelopeFields == {"ciphertext", "iv", "tag"}

Alterations(field) ==
  IF field = "tag" THEN {"flip", "spare", "truncate"} ELSE {"flip"}

Altered(s, how) ==
  CASE how = "flip" -> <<[s[1] EXCEPT !.flipped = TRUE], s[2]>>
    [] how = "spare" -> <<s[1], "spare=1">>
    [] how = "truncate" -> <<ShortTag(s[1]), s[2]>>

NoCrypto ==
  [cmd |-> "none", obj |-> Missing, passphrase |-> Missing, sealed |-> Missing,
   data |-> Missing, altered |-> {}, tried |-> Missing, result |-> Missing]

InitCrypto ==
  /\ configDirExists = [p \in Providers |-> FALSE]
  /\ fs = [p \in Providers |-> NoDir]
  /\ claudeJson = [state |-> "absent", mcpServers |-> Missing, theme |-> Missing]
  /\ mcpJson = [state |-> "absent", hasMcpServers |-> FALSE,
                mcpServers |-> <<>>, extra |-> Missing]
  /\ contexts = <<>>
  /\ syncState = DEFAULT_STATE
  /\ auth = [gistId |-> NoGist, passphrase |-> "K1"]
  /\ gists = [g \in GistIds |-> [exists |-> FALSE, files |-> NoGistFiles]]
  /\ pc = "idle"
  /\ pending = Idle
  /\ now = 0
  /\ edits = 0
  /\ remotePushes = 0
  /\ faults = 0
  /\ dirty = Clean
  /\ last = NoCrypto

CryptoUnchanged ==
  UNCHANGED <<configDirExists, fs, claudeJson, mcpJson, contexts, syncState,
              auth, gists, pc, pending, now, edits, remotePushes, faults, dirty>>

\* encryptObject(obj, passphrase)
EncryptStep(obj, passphrase, salt, iv) ==
  /\ last.cmd = "none"
  /\ LET data == encryptObjectWith(obj, passphrase, salt, iv)
     IN last' = [NoCrypto EXCEPT !.cmd = "encryptObject", !.obj = obj,
                                 !.passphrase = passphrase, !.sealed = data,
                                 !.data = data]
  /\ CryptoUnchanged

\* The stored envelope is altered before it is read back.
TamperStep(field, how) ==
  /\ last.cmd \in {"encryptObject", "tamper"}
  /\ Cardinality(last.altered) < MaxTamper
  /\ field \notin last.altered
  /\ last' = [last EXCEPT !.cmd = "tamper",
                          !.data[field] = Altered(@, how),
                          !.altered = @ \cup {field}]
  /\ CryptoUnchanged

\* decryptObject(data, passphrase)
DecryptStep(passphrase) ==
  /\ last.cmd \in {"encryptObject", "tamper"}
  /\ last' = [last EXCEPT !.cmd = "decryptObject", !.tried = passphrase,
                          !.result = decryptObject(last.data, passphrase)]
  /\ CryptoUnchanged

NextCrypto ==
  \/ \E obj \in CryptoObjects, passphrase \in Passphrases, salt \in Salts,
        iv \in Ivs : EncryptStep(obj, passphrase, salt, iv)
  \/ \E field \in EnvelopeFields :
       \E how \in Alterations(field) : TamperStep(field, how)
  \/ \E passphrase \in Passphrases : DecryptStep(passphrase)

SpecCrypto == InitCrypto /\ [][NextCrypto]_vars

\* The object has no undefined property: it is a JSON value.
JsonSerializable(obj) == \A k \in DOMAIN obj : obj[k] # Missing

C16_DecryptsOnlyUnmodified ==
  (last.cmd = "decryptObject" /\ last.result.ok)
  => /\ last.tried = last.passphrase
     /\ \A field \in EnvelopeFields : last.data[field] = last.sealed[field]

(***************************************************************************)
(* The status command, and the specification of the multi-provider CLI     *)
(* commands with status among them.  The runs are free of injected         *)
(* failures: the fault budget is used up from the start.                   *)
(***************************************************************************)
StatusOptions == {[ids |-> ids, all |-> FALSE] : ids \in {{}, {"claude-code"}}}

\* statusCommand: the "Pending Changes" section.
StatusReport(options) ==
  LET providerIds == determineProviders(options)
      collection == collectFromProviders(providerIds, {})
      contextsHash == getContextsHash
  IN IF auth.gistId # NoGist /\ syncState.lastSync # 0
       THEN IF hasPendingChanges(collection.combinedHash, contextsHash)
              THEN "Local changes not pushed"
              ELSE "In sync with remote"
       ELSE "Initial push required"

\* The observation of a status run keeps the observation of the command
\* before it, the collected view at the time of the run and whether the
\* local configuration was edited since that command.
statusCommand(options) ==
  /\ pc = "idle"
  /\ last.cmd # "status"
  /\ last' = [after |-> last, report |-> StatusReport(options),
              edited |-> dirty.local, viewNow |-> CollectedView]
             @@ [NoObservation EXCEPT !.cmd = "status", !.options = options.ids]
  /\ UNCHANGED localVars
  /\ UNCHANGED <<syncState, auth, gists, pc, pending, now, edits, remotePushes,
                 faults, dirty>>

InitStatus ==
  /\ configDirExists = [p \in Providers |-> p # "codex"]
  /\ fs = [p \in Providers |->
             IF p = "opencode" THEN [NoDir EXCEPT !["agent/foo.md"] = "A"]
             ELSE NoDir]
  /\ claudeJson = [state |-> "ok", mcpServers |-> "M1", theme |-> "dark"]
  /\ mcpJson = [state |-> "ok", hasMcpServers |-> TRUE, mcpServers |-> <<>>,
                extra |-> "inputs"]
  /\ contexts = <<>>
  /\ syncState = DEFAULT_STATE
  /\ \E linked \in BOOLEAN :
       /\ auth = [gistId |-> IF linked THEN "g1" ELSE NoGist, passphrase |-> "K1"]
       /\ gists = [g \in GistIds |->
                     [exists |-> linked /\ g = "g1", files |-> NoGistFiles]]
  /\ pc = "idle"
  /\ pending = Idle
  /\ now = 0
  /\ edits = 0
  /\ remotePushes = 0
  /\ faults = MaxFaults
  /\ dirty = Clean
  /\ last = NoObservation

Status == \E o \in StatusOptions : statusCommand(o)

\* The multi-provider CLI commands, local edits and pushes by another
\* device.
NextStatus ==
  \/ LocalEdit
  \/ \E o \in CliOptions : pushCommand(o, {}, "none")
  \/ \E o \in CliOptions : pullCommand(o, "none")
  \/ \E b \in BOOLEAN : pullAnswer(b, "none")
  \/ Remote
  \/ Status

SpecStatus == InitStatus /\ [][NextStatus]_vars

\* The files and the context list a collection over the providers S sees
\* in a collected view.
SeenIn(view, S) ==
  [files |-> UNION {{<<p, path, view.files[p].files[path]>> :
                       path \in DOMAIN view.files[p].files} :
                    p \in S \cap DOMAIN view.files},
   contexts |-> view.contexts]

\* The provider set of a multi-provider push.
PushedSet(obs) ==
  IF obs.cmd = "push" THEN determineProviders([ids |-> obs.options, all |-> FALSE])
  ELSE Providers

\* The status run follows a multi-provider CLI push that went through and
\* looks at the provider set of that push.
StatusAfterPush ==
  /\ last.cmd = "status"
  /\ last.after.cmd = "push"
  /\ last.after.outcome = "ok"
  /\ last.options = last.after.options

C18_StatusAfterPull ==
  (/\ last.cmd = "status"
   /\ last.after.cmd \in PullCmds
   /\ last.after.outcome = "ok"
   /\ ~last.edited)
  => last.report = "In sync with remote"

(***************************************************************************)
(* The session-context store in detail (storage/contexts.ts).  A summary   *)
(* is described by what addContext looks at: its UTF-8 length, the places  *)
(* of its ". " sentence ends, and whether byte MAX_CONTEXT_SIZE falls      *)
(* inside a two-byte character (all other characters are one byte).        *)
(***************************************************************************)
MaxAdds == 22
MaxDeletes == 2
MaxSummaryAdds == 3

MAX_CONTEXT_SIZE == 20 * 1024

\* "\n\n[Truncated due to size limit]".length
TruncationNoteLength == 31

Summary(bytes, periods, wide) == [bytes |-> bytes, periods |-> periods, wide |-> wide]

\* Input summaries around the size limit.
SummaryInputs ==
  {Summary(bytes, periods, wide) :
     bytes \in {0, 100, MAX_CONTEXT_SIZE - 1, MAX_CONTEXT_SIZE,
                MAX_CONTEXT_SIZE + 1, 2 * MAX_CONTEXT_SIZE},
     periods \in {{}, {50}, {MAX_CONTEXT_SIZE \div 2},
                  {50, MAX_CONTEXT_SIZE - 100}, {MAX_CONTEXT_SIZE - 10}},
     wide \in BOOLEAN} \cap
  {s \in [bytes : Nat, periods : SUBSET Nat, wide : BOOLEAN] :
     /\ s.wide => s.bytes > MAX_CONTEXT_SIZE
     /\ \A p \in s.periods : p + 2 <= s.bytes - (IF s.wide THEN 1 ELSE 0)}

ShortSummary == Summary(100, {50}, FALSE)

\* Buffer.byteLength(summary, "utf8")
byteLength(summary) == summary.bytes

\* bytes.subarray(0, MAX_CONTEXT_SIZE).toString("utf8"): the first
\* MAX_CONTEXT_SIZE bytes; a character cut in two decodes to U+FFFD, which
\* is three bytes long.
CutToLimit(summary) ==
  [bytes |-> IF summary.wide THEN MAX_CONTEXT_SIZE - 1 + 3 ELSE MAX_CONTEXT_SIZE,
   chars |-> MAX_CONTEXT_SIZE,
   periods |-> {p \in summary.periods : p + 2 <= MAX_CONTEXT_SIZE}]

\* truncatedSummary.lastIndexOf(". ")
lastIndexOfPeriod(text) ==
  IF text.periods = {} THEN -1
  ELSE CHOOSE p \in text.periods : \A q \in text.periods : q <= p

\* The summary addContext stores.
truncatedSummary(summary) ==
  IF byteLength(summary) > MAX_CONTEXT_SIZE
    THEN LET cut == CutToLimit(summary)
             lastPeriod == lastIndexOfPeriod(cut)
             kept == IF 2 * lastPeriod > cut.chars
                       THEN lastPeriod + 1 ELSE cut.bytes
         IN [bytes |-> kept + TruncationNoteLength, truncated |-> TRUE]
    ELSE [bytes |-> byteLength(summary), truncated |-> FALSE]

\* generateId: distinct for distinct creation times.
generateId(time) == "ctx-" \o ToString(time)

\* The context object addContext builds, at clock time `time`.
newContext(name, summary, time) ==
  LET stored == truncatedSummary(summary)
  IN [id |-> generateId(time), name |-> name, summary |-> stored,
      createdAt |-> time, size |-> stored.bytes]

\* A store that is never cut back.
addContextNoLimit(storage, name, summary, time) ==
  <<newContext(name, summary, time)>> \o storage

\* addContext(name, summary) on the stored list.
addContextStored(storage, name, summary, time) ==
  LET added == <<newContext(name, summary, time)>> \o storage
  IN IF Len(added) > MAX_CONTEXTS THEN SubSeq(added, 1, MAX_CONTEXTS) ELSE added

\* name.toLowerCase() and a.includes(b) on the names and queries used here.
toLowerCase(s) == IF s = "SESSION" THEN "session" ELSE s
includes(a, b) == a = b \/ (a = "session" /\ b = "sess")

\* getContext(idOrName): exact id, exact name, case-insensitive name, then
\* partial name; the first match in list order, or null.
getContext(storage, idOrName) ==
  LET first(match(_)) ==
        IF \E i \in DOMAIN storage : match(storage[i])
          THEN CHOOSE i \in DOMAIN storage :
                 /\ match(storage[i])
                 /\ \A j \in 1..(i - 1) : ~match(storage[j])
          ELSE 0
      byId(c) == c.id = idOrName
      byName(c) == c.name = idOrName
      byLower(c) == toLowerCase(c.name) = toLowerCase(idOrName)
      byPart(c) == includes(toLowerCase(c.name), toLowerCase(idOrName))
  IN IF first(byId) # 0 THEN first(byId)
     ELSE IF first(byName) # 0 THEN first(byName)
     ELSE IF first(byLower) # 0 THEN first(byLower)
     ELSE first(byPart)

\* deleteContext(idOrName)
deleteContextStored(storage, idOrName) ==
  LET found == getContext(storage, idOrName)
      other(c) == c.id # storage[found].id
  IN IF found = 0 THEN storage ELSE SelectSeq(storage, other)

InitContexts ==
  /\ configDirExists = [p \in Providers |-> FALSE]
  /\ fs = [p \in Providers |-> NoDir]
  /\ claudeJson = [state |-> "absent", mcpServers |-> Missing, theme |-> Missing]
  /\ mcpJson = [state |-> "absent", hasMcpServers |-> FALSE,
                mcpServers |-> <<>>, extra |-> Missing]
  /\ contexts = <<>>
  /\ syncState = DEFAULT_STATE
  /\ auth = [gistId |-> NoGist, passphrase |-> "K1"]
  /\ gists = [g \in GistIds |-> [exists |-> FALSE, files |-> NoGistFiles]]
  /\ pc = "idle"
  /\ pending = Idle
  /\ now = 0
  /\ edits = 0
  /\ remotePushes = 0
  /\ faults = 0
  /\ dirty = Clean
  /\ last = [cmd |-> "none", before |-> <<>>]

\* addContext(name, summary); the clock gives createdAt and the id.
AddContextStep(name, summary, limit) ==
  /\ now < limit
  /\ now' = now + 1
  /\ contexts' = addContextStored(contexts, name, summary, now + 1)
  /\ last' = [cmd |-> "addContext", before |-> contexts]
  /\ UNCHANGED <<configDirExists, fs, claudeJson, mcpJson, syncState, auth,
                 gists, pc, pending, edits, remotePushes, faults, dirty>>

\* deleteContext(idOrName)
DeleteContextStep(idOrName) ==
  /\ edits < MaxDeletes
  /\ edits' = edits + 1
  /\ contexts' = deleteContextStored(contexts, idOrName)
  /\ last' = [cmd |-> "deleteContext", before |-> contexts]
  /\ UNCHANGED <<configDirExists, fs, claudeJson, mcpJson, syncState, auth,
                 gists, pc, pending, now, remotePushes, faults, dirty>>

\* deleteAllContexts()
DeleteAllContextsStep ==
  /\ edits < MaxDeletes
  /\ edits' = edits + 1
  /\ contexts' = <<>>
  /\ last' = [cmd |-> "deleteAllContexts", before |-> contexts]
  /\ UNCHANGED <<configDirExists, fs, claudeJson, mcpJson, syncState, auth,
                 gists, pc, pending, now, remotePushes, faults, dirty>>

\* What deleteContext is called with: an id of the list, or a name.
DeleteQueries ==
  {contexts[i].id : i \in DOMAIN contexts} \cup {"SESSION", "sess", "other"}

NextContexts ==
  \/ AddContextStep("session", ShortSummary, MaxAdds)
  \/ \E idOrName \in DeleteQueries : DeleteContextStep(idOrName)
  \/ DeleteAllContextsStep

SpecContexts == InitContexts /\ [][NextContexts]_vars

NextSummary ==
  \E summary \in SummaryInputs :
    AddContextStep("session", summary, MaxSummaryAdds)

SpecSummary == InitContexts /\ [][NextSummary]_vars

(***************************************************************************)
(* C19: after any sequence of addContext, deleteContext and                *)
(* deleteAllContexts calls the store holds at most MAX_CONTEXTS contexts,  *)
(* newest first; adding a context to a full store drops the last (oldest)  *)
(* entry and puts the new one first.                                       *)
(***************************************************************************)
C19_StoreBoundedNewestFirst ==
  /\ Len(contexts) <= MAX_CONTEXTS
  /\ \A i, j \in DOMAIN contexts :
       i < j => contexts[i].createdAt > contexts[j].createdAt
  /\ (last.cmd = "addContext" /\ Len(last.before) = MAX_CONTEXTS)
       => /\ contexts[1].createdAt = now
          /\ Tail(contexts) = SubSeq(last.before, 1, MAX_CONTEXTS - 1)

\* A context was added to a full store.
C19_Witness ==
  /\ last.cmd = "addContext"
  /\ Len(last.before) = MAX_CONTEXTS
  /\ Len(contexts) = MAX_CONTEXTS
  /\ contexts[1].createdAt = now

(***************************************************************************)
(* C20: every context stored by addContext has a summary of at most        *)
(* MAX_CONTEXT_SIZE bytes, whatever the length of the input summary, and   *)
(* its size field is the UTF-8 byte length of the stored summary.          *)
(***************************************************************************)
C20_SummaryWithinLimit ==
  \A i \in DOMAIN contexts :
    /\ contexts[i].summary.bytes <= MAX_CONTEXT_SIZE
    /\ contexts[i].size = contexts[i].summary.bytes

(***************************************************************************)
(* C21: a CLI pull restricted to a subset of the providers (for instance   *)
(* --claude) creates or overwrites no file under the config root of a      *)
(* provider outside the subset, for V1 and V2 payloads alike.              *)
(***************************************************************************)
C21_PullOnlySelected ==
  [][(CommandStep /\ last'.cmd \in {"pull", "pullLegacy"})
       => \A p \in Providers \ last'.providerIds :
            /\ fs'[p] = fs[p]
            /\ configDirExists'[p] = configDirExists[p]]_vars

(***************************************************************************)
(* C22: after a successful CLI pull the recorded SyncState has the id of   *)
(* the pulled gist, configHash = the payload's config.hash for a V1        *)
(* payload or "" for V2, and contextsHash = the hash of the context list   *)
(* just written, that is what getContextsHash returns right after the      *)
(* pull.                                                                   *)
(***************************************************************************)
C22_PullRecordsWhatIsLocal ==
  [][(/\ CommandStep
      /\ last'.cmd \in {"pull", "pullLegacy"}
      /\ last'.outcome = "ok"
      /\ last'.payload.version \in {1, 2})
       => /\ syncState'.gistId = last'.gistId
          /\ syncState'.configHash
               = IF isPayloadV2(last'.payload) THEN EmptyHash
                 ELSE last'.payload.config.hash
          /\ syncState'.contextsHash = getContextsHash']_vars

(***************************************************************************)
(* CLI pushes alone, from a device that has credentials but no gist id     *)
(* yet, with local edits in between.                                       *)
(***************************************************************************)
InitPush ==
  /\ configDirExists = [p \in Providers |-> p # "codex"]
  /\ fs = [p \in Providers |->
             IF p = "opencode" THEN [NoDir EXCEPT !["agent/foo.md"] = "A"]
             ELSE NoDir]
  /\ claudeJson = [state |-> "ok", mcpServers |-> "M1", theme |-> "dark"]
  /\ mcpJson = [state |-> "ok", hasMcpServers |-> TRUE, mcpServers |-> <<>>,
                extra |-> "inputs"]
  /\ contexts = <<>>
  /\ syncState = DEFAULT_STATE
  /\ auth = [gistId |-> NoGist, passphrase |-> "K1"]
  /\ gists = [g \in GistIds |-> [exists |-> FALSE, files |-> NoGistFiles]]
  /\ pc = "idle"
  /\ pending = Idle
  /\ now = 0
  /\ edits = 0
  /\ remotePushes = 0
  /\ faults = 0
  /\ dirty = Clean
  /\ last = NoObservation

CliPush ==
  \/ \E o \in CliOptions, fail \in PushFailures :
       pushCommand(o, Throwing(fail), fail)
  \/ \E f \in BOOLEAN, fail \in PushFailures : pushCommandV1(f, fail)

NextPush == LocalEdit \/ CliPush

SpecPush == InitPush /\ [][NextPush]_vars

\* The gists that exist.
Created == {g \in GistIds : gists[g].exists}

(***************************************************************************)
(* C23: over any sequence of CLI pushes with the same stored credentials,  *)
(* createGist is called only when no gist id is stored; the id the first   *)
(* successful push got is stored, every later push updates the gist of     *)
(* that id, and so at most one gist is ever created.                       *)
(***************************************************************************)
C23_OneGistPerDevice ==
  [][(CommandStep /\ last'.cmd \in CliPushCmds)
       => /\ Created' # Created
               => /\ auth.gistId = NoGist
                  /\ Created' = Created \cup {auth'.gistId}
          /\ auth.gistId # NoGist
               => /\ auth' = auth
                  /\ \A g \in GistIds \ {auth.gistId} : gists'[g] = gists[g]
          /\ (auth.gistId = NoGist /\ last'.outcome = "ok")
               => auth'.gistId \in Created'
          /\ Cardinality(Created') <= 1]_vars

\* A second push went through and updated the gist that the first push had
\* created and stored.
C23_Witness ==
  /\ last.cmd \in CliPushCmds
  /\ last.outcome = "ok"
  /\ last.remoteWrites = 1
  /\ last.stateBefore.gistId = auth.gistId
  /\ Created = {auth.gistId}

(***************************************************************************)
(* collectFromProviders with failing providers: the initial state draws    *)
(* the config roots, the one step collects a selection of providers while  *)
(* the collectFiles of some of them throws.                                *)
(***************************************************************************)
InitIsolation ==
  /\ configDirExists \in [Providers -> BOOLEAN]
  /\ \E present \in SUBSET Providers :
       fs = [p \in Providers |->
               [path \in Paths |->
                  IF configDirExists[p] /\ p \in present
                     /\ path \in SyncablePaths(p)
                    THEN "A" ELSE NoFile]]
  /\ claudeJson \in LocalClaudeJsons
  /\ mcpJson = [state |-> "absent", hasMcpServers |-> FALSE,
                mcpServers |-> <<>>, extra |-> Missing]
  /\ contexts = <<>>
  /\ syncState = DEFAULT_STATE
  /\ auth = [gistId |-> NoGist, passphrase |-> "K1"]
  /\ gists = [g \in GistIds |-> [exists |-> FALSE, files |-> NoGistFiles]]
  /\ pc = "idle"
  /\ pending = Idle
  /\ now = 0
  /\ edits = 0
  /\ remotePushes = 0
  /\ faults = 0
  /\ dirty = Clean
  /\ last = [cmd |-> "none", providerIds |-> {}, throwing |-> {},
             result |-> [results |-> <<>>, combinedHash |-> EmptyHash]]

\* collectFromProviders({ providerIds }) while the providers of `throwing`
\* fail.
CollectIsolatedStep(providerIds, throwing) ==
  /\ last.cmd = "none"
  /\ last' = [cmd |-> "collectFromProviders", providerIds |-> providerIds,
              throwing |-> throwing,
              result |-> collectFromProviders(providerIds, throwing)]
  /\ UNCHANGED localVars
  /\ UNCHANGED <<syncState, auth, gists, pc, pending, now, edits, remotePushes,
                 faults, dirty>>

NextIsolation ==
  \E providerIds \in SUBSET Providers \ {{}}, throwing \in SUBSET Providers :
    CollectIsolatedStep(providerIds, throwing)

SpecIsolation == InitIsolation /\ [][NextIsolation]_vars

\* The selected installed providers of the observed collection, and those
\* of them that failed.
Selected == {p \in last.providerIds : isInstalled(p)}
Failing == Selected \cap last.throwing

(***************************************************************************)
(* C24 (as stated): if the collectFiles of a provider fails,               *)
(* collectFromProviders does not throw, still returns the snapshots of all *)
(* other selected installed providers, and the failing provider is         *)
(* represented by an empty snapshot (no files, combinedHash "").           *)
(***************************************************************************)
C24_FailingProviderEmptySnapshot ==
  last.cmd = "collectFromProviders"
    => /\ \A p \in Selected \ Failing :
            /\ p \in DOMAIN last.result.results
            /\ last.result.results[p] = collectFiles(p)
       /\ \A p \in Failing :
            /\ p \in DOMAIN last.result.results
            /\ last.result.results[p] = EmptyCollection

(***************************************************************************)
(* C24 (amended): if the collectFiles of a provider fails,                 *)
(* collectFromProviders does not throw and still returns the snapshots of  *)
(* all other selected installed providers; the failing provider has no     *)
(* snapshot in the result and adds nothing to the combined hash: the       *)
(* result is the one of a collection that leaves the failing provider out. *)
(***************************************************************************)
C24_FailingProviderLeftOut ==
  last.cmd = "collectFromProviders"
    => /\ DOMAIN last.result.results = Selected \ Failing
       /\ \A p \in Selected \ Failing :
            last.result.results[p] = collectFiles(p)
       /\ last.result
            = collectFromProviders(last.providerIds \ last.throwing, {})

\* One provider failed and another one was collected with files.
C24_Witness ==
  /\ last.cmd = "collectFromProviders"
  /\ Failing # {}
  /\ \E p \in Selected \ Failing :
       /\ p \in DOMAIN last.result.results
       /\ last.result.results[p].combinedHash # EmptyHash
  /\ last.result.combinedHash # EmptyHash

\* The two sync files of the gist that the pull observed in obs reads.
CurrentFile(obs) == gists[obs.gistId].files["coding-agent-sync.json"]
LegacyFile(obs) == gists[obs.gistId].files["opencodesync.json"]

MaxRegistrations == 3

RegistryIds == {"opencode", "claude-code", "codex", "gemini"}

\* openCodeProvider, claudeCodeProvider, codexProvider, geminiProvider
BuiltinProviders ==
  <<[id |-> "opencode", object |-> "builtin"],
    [id |-> "claude-code", object |-> "builtin"],
    [id |-> "codex", object |-> "builtin"],
    [id |-> "gemini", object |-> "builtin"]>>

\* Provider objects a caller of registerProvider may pass.
ProviderObjects == [id : RegistryIds, object : {"builtin", "custom"}]

\* registry.has(id)
has(providers, id) == \E i \in DOMAIN providers : providers[i].id = id

\* registry.getIds()
getIds(providers) == [i \in DOMAIN providers |-> providers[i].id]

\* register(provider): this.providers.set(provider.id, provider).  Map.set
\* replaces the value of a key that is present and keeps its place, and
\* appends a key that is new.
register(providers, provider) ==
  IF has(providers, provider.id)
    THEN [i \in DOMAIN providers |->
            IF providers[i].id = provider.id THEN provider ELSE providers[i]]
    ELSE Append(providers, provider)

RECURSIVE registerAll(_, _)
registerAll(providers, list) ==
  IF list = <<>> THEN providers
  ELSE registerAll(register(providers, Head(list)), Tail(list))

InitRegistry ==
  /\ configDirExists = [p \in Providers |-> FALSE]
  /\ fs = [p \in Providers |-> NoDir]
  /\ claudeJson = [state |-> "absent", mcpServers |-> Missing, theme |-> Missing]
  /\ mcpJson = [state |-> "absent", hasMcpServers |-> FALSE,
                mcpServers |-> <<>>, extra |-> Missing]
  /\ contexts = <<>>
  /\ syncState = DEFAULT_STATE
  /\ auth = [gistId |-> NoGist, passphrase |-> "K1"]
  /\ gists = [g \in GistIds |-> [exists |-> FALSE, files |-> NoGistFiles]]
  /\ pc = "idle"
  /\ pending = Idle
  /\ now = 0
  /\ edits = 0
  /\ remotePushes = 0
  /\ faults = 0
  /\ dirty = Clean
  /\ last = [cmd |-> "none", providers |-> <<>>, initialized |-> FALSE,
             before |-> <<>>, wasInitialized |-> FALSE,
             provider |-> [id |-> "none", object |-> "none"]]

RegistryUnchanged ==
  UNCHANGED <<configDirExists, fs, claudeJson, mcpJson, contexts, syncState,
              auth, gists, pc, pending, edits, remotePushes, faults, dirty>>

\* registerProvider(provider)
RegisterProviderStep(provider) ==
  /\ now < MaxRegistrations
  /\ now' = now + 1
  /\ last' = [last EXCEPT !.cmd = "registerProvider",
                          !.before = last.providers,
                          !.wasInitialized = last.initialized,
                          !.provider = provider,
                          !.providers = register(last.providers, provider)]
  /\ RegistryUnchanged

\* initializeProviders()
InitializeProvidersStep ==
  /\ now < MaxRegistrations
  /\ now' = now + 1
  /\ last' = [last EXCEPT !.cmd = "initializeProviders",
                          !.before = last.providers,
                          !.wasInitialized = last.initialized,
                          !.provider = [id |-> "none", object |-> "none"],
                          !.providers = IF last.initialized THEN @
                                        ELSE registerAll(@, BuiltinProviders),
                          !.initialized = TRUE]
  /\ RegistryUnchanged

NextRegistry ==
  \/ \E provider \in ProviderObjects : RegisterProviderStep(provider)
  \/ InitializeProvidersStep

SpecRegistry == InitRegistry /\ [][NextRegistry]_vars

(***************************************************************************)
(* C26: registration is idempotent: once a provider is registered under an *)
(* id, a later registration under the same id is a no-op, so the registry  *)
(* keeps the first-registered provider and its ids are unchanged; a        *)
(* repeated initializeProviders leaves the registry unchanged.             *)
(***************************************************************************)
C26_RegisterIdempotent ==
  /\ (last.cmd = "registerProvider" /\ has(last.before, last.provider.id))
       => /\ last.providers = last.before
          /\ getIds(last.providers) = getIds(last.before)
  /\ (last.cmd = "initializeProviders" /\ last.wasInitialized)
       => last.providers = last.before

(***************************************************************************)
(* providers/mcp.ts on its own: setGlobalMCPServer and                     *)
(* removeGlobalMCPServer on ~/.mcp.json.  The mcpServers object is the     *)
(* list of its entries in key order.                                       *)
(***************************************************************************)
MaxMcpEdits == 2

McpNames == {"alpha", "beta", "__proto__"}

\* The config argument of setGlobalMCPServer: what the add and edit
\* commands of the editor pass; an input box that was emptied gives "".
McpConfigs ==
  [type : {"stdio", "http"}, command : {"npx", "", Missing},
   url : {"http://localhost:8080", "", Missing}, enabled : BOOLEAN]

\* if (config.x) serverConfig.x = config.x
Truthy(value) == IF value = "" THEN Missing ELSE value

\* The entry object setGlobalMCPServer builds from config.
serverConfigOf(name, config) ==
  [name |-> name, type |-> Truthy(config.type),
   command |-> Truthy(config.command), url |-> Truthy(config.url),
   disabled |-> ~config.enabled]

\* mcpServers[name] = serverConfig on an object that JSON.parse built: an
\* own key keeps its place and gets the new value; a new key is appended,
\* except the key "__proto__", for which the assignment sets the prototype
\* of the object and creates no own key.
AssignEntry(entries, entry) ==
  IF \E i \in DOMAIN entries : entries[i].name = entry.name
    THEN [i \in DOMAIN entries |->
            IF entries[i].name = entry.name THEN entry ELSE entries[i]]
  ELSE IF entry.name = "__proto__" THEN entries
  ELSE Append(entries, entry)

\* setGlobalMCPServer(name, config): the document after the call.
setGlobalMCPServer(doc, name, config) ==
  LET existingConfig ==
        IF doc.state = "ok" THEN doc
        ELSE [state |-> "ok", hasMcpServers |-> FALSE, mcpServers |-> <<>>,
              extra |-> Missing]
      servers == IF existingConfig.hasMcpServers
                   THEN existingConfig.mcpServers ELSE <<>>
  IN [state |-> "ok", hasMcpServers |-> TRUE,
      mcpServers |-> AssignEntry(servers, serverConfigOf(name, config)),
      extra |-> existingConfig.extra]

\* removeGlobalMCPServer(name): the document after the call.
removeGlobalMCPServer(doc, name) ==
  LET other(e) == e.name # name
  IN IF doc.state = "ok" /\ doc.hasMcpServers
       THEN [doc EXCEPT !.mcpServers = SelectSeq(@, other)]
       ELSE doc

\* type=stdio requires command; type http or sse requires url.
ValidServer(e) ==
  IF e.type \in {"stdio", Missing} THEN e.command # Missing
  ELSE e.url # Missing

BetaEntry ==
  [name |-> "beta", type |-> "http", command |-> Missing,
   url |-> "http://localhost:8080", disabled |-> FALSE]

\* ~/.mcp.json before the first call: absent, not parseable, without an
\* mcpServers key, or with one valid server; with or without another
\* top-level key.
McpDocuments ==
  {[state |-> "absent", hasMcpServers |-> FALSE, mcpServers |-> <<>>,
    extra |-> Missing],
   [state |-> "corrupt", hasMcpServers |-> FALSE, mcpServers |-> <<>>,
    extra |-> Missing]}
  \cup {doc \in [state : {"ok"}, hasMcpServers : BOOLEAN,
                 mcpServers : {<<>>, <<BetaEntry>>},
                 extra : {Missing, "inputs"}] :
          doc.hasMcpServers \/ doc.mcpServers = <<>>}

InitMcp ==
  /\ configDirExists = [p \in Providers |-> FALSE]
  /\ fs = [p \in Providers |-> NoDir]
  /\ claudeJson = [state |-> "absent", mcpServers |-> Missing, theme |-> Missing]
  /\ mcpJson \in McpDocuments
  /\ contexts = <<>>
  /\ syncState = DEFAULT_STATE
  /\ auth = [gistId |-> NoGist, passphrase |-> "K1"]
  /\ gists = [g \in GistIds |-> [exists |-> FALSE, files |-> NoGistFiles]]
  /\ pc = "idle"
  /\ pending = Idle
  /\ now = 0
  /\ edits = 0
  /\ remotePushes = 0
  /\ faults = 0
  /\ dirty = Clean
  /\ last = [cmd |-> "none", name |-> "none", before |-> mcpJson,
             serversBefore |-> <<>>]

McpObserved(cmd, name) ==
  /\ edits < MaxMcpEdits
  /\ edits' = edits + 1
  /\ last' = [cmd |-> cmd, name |-> name, before |-> mcpJson,
              serversBefore |-> getGlobalMCPServers]
  /\ UNCHANGED <<configDirExists, fs, claudeJson, contexts, syncState, auth,
                 gists, pc, pending, now, remotePushes, faults, dirty>>

SetGlobalMCPServerStep(name, config) ==
  /\ McpObserved("set", name)
  /\ mcpJson' = setGlobalMCPServer(mcpJson, name, config)

RemoveGlobalMCPServerStep(name) ==
  /\ McpObserved("remove", name)
  /\ mcpJson' = removeGlobalMCPServer(mcpJson, name)

NextMcp ==
  \/ \E name \in McpNames, config \in McpConfigs :
       SetGlobalMCPServerStep(name, config)
  \/ \E name \in McpNames : RemoveGlobalMCPServerStep(name)

SpecMcp == InitMcp /\ [][NextMcp]_vars

(***************************************************************************)
(* C27: every server entry that setGlobalMCPServer writes to ~/.mcp.json   *)
(* is valid: with type stdio it has a command, with type http or sse it    *)
(* has a url.                                                              *)
(***************************************************************************)
C27_StoredServersValid ==
  last.cmd = "set"
    => \A i \in DOMAIN mcpJson.mcpServers :
         mcpJson.mcpServers[i].name = last.name
           => ValidServer(mcpJson.mcpServers[i])

\* The servers of a list without those called name.
Others(servers, name) ==
  LET other(e) == e.name # name
  IN SelectSeq(servers, other)

Named(servers, name) == {i \in DOMAIN servers : servers[i].name = name}

(***************************************************************************)
(* C30: setGlobalMCPServer(name, cfg) and removeGlobalMCPServer(name)      *)
(* change only the entry for name in ~/.mcp.json: every other server entry *)
(* and every other top-level key is unchanged; afterwards                  *)
(* getGlobalMCPServers has exactly one entry called name (after set) or    *)
(* none (after remove); removing an absent name leaves the list of servers *)
(* unchanged.                                                              *)
(***************************************************************************)
C30_OnlyNamedEntryChanges ==
  last.cmd \in {"set", "remove"}
    => /\ Others(getGlobalMCPServers, last.name)
            = Others(last.serversBefore, last.name)
       /\ mcpJson.extra = last.before.extra
       /\ Cardinality(Named(getGlobalMCPServers, last.name))
            = IF last.cmd = "set" THEN 1 ELSE 0
       /\ (last.cmd = "remove" /\ Named(last.serversBefore, last.name) = {})
            => getGlobalMCPServers = last.serversBefore

(***************************************************************************)
(* C28: after a successful CLI push to a gist, a following CLI pull of     *)
(* that gist with the same passphrase decrypts exactly the payload the     *)
(* push uploaded, whatever sync files the gist held before: the file name  *)
(* push writes is the one pull reads.                                      *)
(***************************************************************************)
C28_PullReadsWhatPushWrote ==
  [][(/\ last.cmd \in CliPushCmds /\ last.outcome = "ok"
      /\ ~dirty.remote
      /\ CommandStep /\ now' # now
      /\ last'.cmd \in {"pull", "pullLegacy"}
      /\ GotPayload(last'))
       => last'.payload = gists[auth.gistId].files[PushFileName].payload]_vars

(***************************************************************************)
(* C29: after any successful push or pull, by the CLI or by the editor,    *)
(* the gist id recorded in SyncState equals the gist id stored in the      *)
(* credentials, so that the next push or pull goes to the gist that was    *)
(* just synced.                                                            *)
(***************************************************************************)
C29_StateAndCredentialsAgree ==
  [][(/\ CommandStep
      /\ last'.cmd \in CliPushCmds \cup PullCmds \cup {"performPush"}
      /\ last'.outcome = "ok")
       => syncState'.gistId = auth'.gistId]_vars

====
